---- MODULE Spec2Model ----
(***************************************************************************)
(* Authorization and session-security core of board3-v2.                   *)
(*   RbacService  (rbac.service.ts, kept at the end of rbac.service.spec.ts)*)
(*   AuthService  (auth.service.ts)                                        *)
(*   RedisService (cache/redis.service.ts)                                 *)
(* Every await of a handler is one atomic step of the store or the cache;  *)
(* handlers interleave between awaits.                                     *)
(***************************************************************************)
EXTENDS Integers, Sequences, FiniteSets, TLC

VARIABLES
  roles,        \* prisma.role: role id -> record
  members,      \* prisma.organizationMember: <<userId, orgId>> -> record
  permCache,    \* Redis keys user_permissions:<userId>:<orgId|global>
  cp,           \* checkPermission calls: call id -> position and locals
  ur,           \* the updateRole call: position and locals
  storeEpoch,   \* number of role updates so far (history)
  now,          \* the clock, in seconds
  ticks,        \* number of clock advances so far (bounds the run)
  users,        \* prisma.user: principal id -> record
  refreshTokens,\* prisma.refreshToken: set of records
  nextTokenId,  \* next refreshToken.id
  issued,       \* refresh token strings handed to callers so far (history)
  rt,           \* refreshToken calls: call id -> position and locals
  attempts,     \* Redis keys login_attempts:<email|ip>
  auditLog,     \* prisma.auditLog: set of records
  failLog,      \* per email: counted failures so far (history)
  lastLogin,    \* the last login call and its outcome (history)
  fl,           \* failing login calls in flight: call id -> position and locals
  handed,       \* the secret setupMfa last returned to each user's client
  lastMfa,      \* the last setupMfa / enableMfa / disableMfa call (history)
  chg,          \* the changePassword call: position, locals and what it saw
  lo,           \* the last logout call (history)
  auditDown,    \* whether prisma.auditLog.create throws at present
  rb,           \* the last assignRole / createRole / deleteRole call (history)
  accounts,     \* prisma.user as register sees it: the rows' id, email and username
  rg,           \* register calls: call id -> position and locals
  up,           \* concurrent assignRole calls: call id -> position and locals
  dr,           \* the deleteRole call that runs step by step: position and locals
  ak            \* EncryptionService: the pairs generateApiKey returned, the last verifyApiKey call

rbacVars == <<roles, members, permCache, cp, ur, storeEpoch>>

clockVars == <<now, ticks>>

tokenVars == <<users, refreshTokens, nextTokenId, issued, rt>>

loginVars == <<attempts, auditLog, failLog, lastLogin>>

callVars == <<fl>>

mfaVars == <<handed, lastMfa>>

\* The variables of the operations modelled further down.
sessionVars == <<chg, lo>>

auditVars == <<auditDown, rb>>

registerVars == <<accounts, rg>>

upsertVars == <<up, dr>>

keyVars == <<ak>>

laterVars == <<mfaVars, sessionVars, auditVars, registerVars, upsertVars, keyVars>>

vars == <<rbacVars, clockVars, tokenVars, loginVars, callVars, laterVars>>

\* What the handlers of one service leave alone.
outsideRbac == <<clockVars, tokenVars, loginVars, callVars, laterVars>>

outsideToken == <<rbacVars, clockVars, loginVars, callVars, laterVars>>

outsideLogin == <<rbacVars, clockVars, rt, callVars, laterVars>>

outsideFail == <<rbacVars, clockVars, tokenVars, auditLog, lastLogin, laterVars>>

outsideMfa == <<rbacVars, clockVars, refreshTokens, nextTokenId, issued, rt,
                attempts, failLog, lastLogin, callVars, sessionVars, auditVars,
                registerVars, upsertVars, keyVars>>

outsideSession == <<rbacVars, clockVars, nextTokenId, issued, rt, attempts, failLog,
                    lastLogin, callVars, mfaVars, auditVars, registerVars, upsertVars, keyVars>>

outsideRoles == <<cp, ur, storeEpoch, clockVars, tokenVars, attempts, failLog, lastLogin,
                  callVars, mfaVars, sessionVars, auditDown, registerVars, upsertVars, keyVars>>

outsideAssign == <<roles, cp, ur, storeEpoch, clockVars, tokenVars, attempts, failLog,
                   lastLogin, callVars, mfaVars, sessionVars, auditVars, registerVars, keyVars, dr>>

outsideDelete == <<members, permCache, cp, ur, storeEpoch, clockVars, tokenVars, attempts,
                   failLog, lastLogin, callVars, mfaVars, sessionVars, auditVars,
                   registerVars, up, keyVars>>

outsideKey == <<rbacVars, clockVars, tokenVars, loginVars, callVars, mfaVars, sessionVars,
                auditVars, registerVars, upsertVars>>

outsideRegister == <<rbacVars, clockVars, users, rt, attempts, failLog, lastLogin, callVars,
                     mfaVars, sessionVars, auditVars, upsertVars, keyVars>>

----------------------------------------------------------------------------
(* Bounds *)

MaxCalls == 2

MaxRefreshCalls == 2

MaxTicks == 2

MaxLoginTicks == 2

MaxTokenId == 4

MaxFailCalls == 2

MaxAudits == 3

MaxRegisterCalls == 2

MaxAssignCalls == 2

TickSeconds == 450

----------------------------------------------------------------------------
(* Domains *)

UserIds == {"u1", "u2"}
OrgIds == {"o1"}
NoOrg == "global"
RoleIds == {"r1", "r2"}
NoRole == "none"
ResourceIds == {"d1", "d2"}
NoId == "noid"
CallIds == 1 .. MaxCalls

Actions == {"READ", "DELETE", "ADMIN"}
Resources == {"DESIGN", "ORGANIZATION"}

NullScope == [kind |-> "null", resourceIds |-> {}]

Perm(a, r) == [action |-> a, resource |-> r, scope |-> NullScope]

ScopedPerm(a, r, ids) == [action |-> a, resource |-> r, scope |-> [kind |-> "ids", resourceIds |-> ids]]

\* The permission lists roles are created and updated with.
PermLists ==
  { {},
    {Perm("READ", "DESIGN"), Perm("DELETE", "DESIGN")},
    {Perm("ADMIN", "DESIGN"), Perm("READ", "ORGANIZATION")},
    {Perm("ADMIN", "ORGANIZATION")},
    {ScopedPerm("DELETE", "DESIGN", {"d1"}), Perm("READ", "DESIGN")} }

\* The permission lists updateRole is called with.
UpdateLists ==
  { {},
    {Perm("READ", "DESIGN")},
    {Perm("ADMIN", "ORGANIZATION")} }

----------------------------------------------------------------------------
(* The audit log *)

\* The administrator on whose behalf the role operations run.
Admin == "admin"

\* logAuditEvent with the catch left out: a failed append is thrown on.
LogAuditEventRethrow(log, userId, action, fails) ==
  [log |-> IF fails THEN log ELSE Append(log, [userId |-> userId, action |-> action]),
   threw |-> fails]

\* logAuditEvent (AuthService and RbacService alike): auditLog.create inside
\* try/catch; a failure is only logged. Gives the log afterwards and whether the
\* caller sees an exception.
LogAuditEvent(log, userId, action, fails) ==
  [log |-> IF fails THEN log ELSE Append(log, [userId |-> userId, action |-> action]),
   threw |-> FALSE]

\* What a call returns whose last step is logAuditEvent.
AfterAudit(audit, result) == IF audit.threw THEN "AuditError" ELSE result

----------------------------------------------------------------------------
(* JSON and the Redis wrapper *)

JsNull == [kind |-> "null", doc |-> {}]

\* JSON.stringify of a permission array: a string holding the JSON text.
JsonStringify(perms) == [kind |-> "string", text |-> "array", doc |-> perms]

\* The decimal string Redis keeps for a counter.
NumString(n) == [kind |-> "string", text |-> "number", doc |-> n]

\* JSON.parse: a string of JSON text gives the value it spells; a number is
\* coerced to its decimal string and parses to itself; an array is coerced to
\* "[object Object],..." (or the empty string), which is no JSON text.
JsonParse(v) ==
  IF v.kind = "string" THEN [kind |-> v.text, doc |-> v.doc]
  ELSE IF v.kind = "number" THEN v
  ELSE [kind |-> "SyntaxError", doc |-> {}]

\* JavaScript truthiness of what RedisService.get returns.
Truthy(v) == v.kind # "null" /\ ~(v.kind = "number" /\ v.doc = 0)

NoTtl == -1

NoEntry == [present |-> FALSE, value |-> JsNull, expireAt |-> NoTtl]

\* Redis drops a key when its TTL has run out.
RedisLiveAt(entry, at) == entry.present /\ (entry.expireAt = NoTtl \/ at < entry.expireAt)

RedisLive(entry) == RedisLiveAt(entry, now)

\* RedisService.get: parses what it finds; a failed read is logged and gives null.
RedisGet(entry, fails) ==
  IF fails \/ ~RedisLive(entry) THEN JsNull ELSE JsonParse(entry.value)

\* RedisService.setex: stores the string as given, with a TTL.
RedisSetex(value, ttl) == [present |-> TRUE, value |-> value, expireAt |-> now + ttl]

\* RedisService.incr: INCR creates a missing key as 1, with no TTL.
RedisIncr(entry) ==
  IF RedisLive(entry)
  THEN [entry EXCEPT !.value = NumString(entry.value.doc + 1)]
  ELSE [present |-> TRUE, value |-> NumString(1), expireAt |-> NoTtl]

RedisExpireBad(entry, ttl) == entry

\* RedisService.expire: EXPIRE sets the TTL of an existing key.
RedisExpire(entry, ttl) ==
  IF RedisLive(entry) THEN [entry EXCEPT !.expireAt = now + ttl] ELSE entry

CacheKey(userId, orgId) == <<userId, orgId>>

----------------------------------------------------------------------------
(* RbacService.checkPermission: the decision over a permission list *)

permissionCacheExpiry == 300

CheckScope(scope, resourceId) ==
  IF scope.kind = "ids" THEN resourceId \in scope.resourceIds ELSE TRUE

HasPermission(perms, action, resource, resourceId) ==
  \E p \in perms :
    /\ p.action = action
    /\ p.resource = resource
    /\ IF p.scope.kind # "null" /\ resourceId # NoId
       THEN CheckScope(p.scope, resourceId)
       ELSE TRUE

HasAdminPermissionBad(perms, resource) ==
  \E p \in perms : p.action = "ADMIN" /\ p.resource = resource

HasAdminPermission(perms, resource) ==
  \E p \in perms :
    /\ p.action = "ADMIN"
    /\ (p.resource = resource \/ p.resource = "ORGANIZATION")

Decide(perms, action, resource, resourceId) ==
  IF HasPermission(perms, action, resource, resourceId) \/ HasAdminPermission(perms, resource)
  THEN "true" ELSE "false"

\* The catch blocks of getUserPermissions: any error gives the empty list.
OnErrorBad(perms) == perms

OnError(perms) == {}

\* organizationMember.findFirst({userId, orgId, isActive: true}, include role.permissions)
MemberPermissions(userId, orgId) ==
  LET m == members[<<userId, orgId>>] IN
  IF m.exists /\ m.isActive /\ roles[m.roleId].exists
  THEN roles[m.roleId].permissions ELSE {}

----------------------------------------------------------------------------
(* State after construction *)

AssignCallIds == 1 .. MaxAssignCalls

IdleAssign ==
  [pc |-> "idle", userId |-> NoId, orgId |-> NoOrg, roleId |-> NoRole,
   found |-> FALSE, raced |-> FALSE, result |-> "none"]

IdleDelete == [pc |-> "idle", roleId |-> NoRole, orgId |-> NoOrg, result |-> "none"]

\* A membership as the handlers see it, with the number of rows that the table
\* holds for the pair.
NoMember == [exists |-> FALSE, roleId |-> NoRole, isActive |-> FALSE, rows |-> 0]

Member(roleId, isActive) == [exists |-> TRUE, roleId |-> roleId, isActive |-> isActive, rows |-> 1]

NoRoleCall ==
  [op |-> "none", result |-> "none", wrote |-> FALSE, flip |-> FALSE,
   userId |-> NoId, orgId |-> NoOrg, roleId |-> NoRole, quiet |-> TRUE, at |-> 0]

IdleCall ==
  [pc |-> "idle", userId |-> "u1", orgId |-> NoOrg, permissions |-> {},
   getFailed |-> FALSE, findFailed |-> FALSE, setexFailed |-> FALSE,
   hit |-> FALSE, epoch |-> 0, afterUpdate |-> FALSE,
   startedAt |-> 0, wroteAt |-> NoTtl, afterRole |-> NoRoleCall]

IdleUpdate ==
  [pc |-> "idle", roleId |-> NoRole, orgId |-> NoOrg, hasPerms |-> FALSE, permissions |-> {},
   old |-> {}, todo |-> {}, result |-> "none"]

RbacStart(PermChoices, MemberChoices) ==
  /\ \E p1 \in PermChoices :
       roles = [r \in RoleIds |->
                 IF r = "r1"
                 THEN [exists |-> TRUE, orgId |-> "o1", isSystem |-> FALSE, permissions |-> p1]
                 ELSE [exists |-> TRUE, orgId |-> "o1", isSystem |-> TRUE,
                       permissions |-> {Perm("ADMIN", "ORGANIZATION")}]]
  /\ \E m2 \in MemberChoices :
       members = [k \in UserIds \X OrgIds |->
                   IF k[1] = "u1" THEN Member("r1", TRUE)
                   ELSE m2]
  /\ permCache = [k \in UserIds \X (OrgIds \cup {NoOrg}) |-> NoEntry]
  /\ cp = [c \in CallIds |-> IdleCall]
  /\ ur = IdleUpdate
  /\ storeEpoch = 0

\* r1 is a custom role of o1 held by u1, r2 a system role; u2 is no member, a
\* member or a removed member.
RbacInit ==
  RbacStart(PermLists, {NoMember,
                        Member("r1", TRUE),
                        Member("r1", FALSE)})

\* The RBAC store at rest, for the specifications of AuthService.
RbacIdle == RbacStart({{}}, {NoMember})

----------------------------------------------------------------------------
(* RbacService.checkPermission / getUserPermissions *)

\* The call starts and getUserPermissions reads the cache. A hit is parsed again
\* and returned; a miss goes on to the store (or, with no orgId, to the cache write).
CpGet(c, userId, orgId, fails) ==
  /\ cp[c].pc = "idle"
  /\ \A d \in CallIds : d < c => cp[d].pc # "idle"
  /\ LET cached == RedisGet(permCache[CacheKey(userId, orgId)], fails)
         started == [cp[c] EXCEPT !.userId = userId, !.orgId = orgId, !.getFailed = fails,
                                  !.afterUpdate = (ur.pc = "done"),
                                  !.startedAt = now, !.afterRole = rb]
     IN
     IF Truthy(cached)
     THEN LET parsed == JsonParse(cached) IN
          cp' = [cp EXCEPT ![c] =
                   [started EXCEPT !.hit = TRUE,
                                   !.permissions = IF parsed.kind = "SyntaxError"
                                                   THEN OnError(cached.doc) ELSE parsed.doc,
                                   !.pc = "done"]]
     ELSE cp' = [cp EXCEPT ![c] =
                   [started EXCEPT !.pc = IF orgId # NoOrg THEN "find" ELSE "setex"]]
  /\ UNCHANGED <<roles, members, permCache, ur, storeEpoch>>
  /\ UNCHANGED outsideRbac

\* organizationMember.findFirst; a store failure is caught and gives [].
CpFind(c, fails) ==
  /\ cp[c].pc = "find"
  /\ cp' = [cp EXCEPT ![c] =
             IF fails
             THEN [cp[c] EXCEPT !.findFailed = TRUE, !.permissions = OnError({}), !.pc = "done"]
             ELSE [cp[c] EXCEPT !.permissions = MemberPermissions(cp[c].userId, cp[c].orgId),
                                !.epoch = storeEpoch, !.pc = "setex"]]
  /\ UNCHANGED <<roles, members, permCache, ur, storeEpoch>>
  /\ UNCHANGED outsideRbac

\* redisService.setex(cacheKey, 300, JSON.stringify(permissions)); a failed write
\* is rethrown by RedisService.setex and caught by getUserPermissions.
CpSetex(c, fails) ==
  /\ cp[c].pc = "setex"
  /\ IF fails
     THEN /\ cp' = [cp EXCEPT ![c] = [cp[c] EXCEPT !.setexFailed = TRUE,
                                                   !.permissions = OnError(cp[c].permissions),
                                                   !.pc = "done"]]
          /\ UNCHANGED permCache
     ELSE /\ permCache' = [permCache EXCEPT ![CacheKey(cp[c].userId, cp[c].orgId)] =
                             RedisSetex(JsonStringify(cp[c].permissions), permissionCacheExpiry)]
          /\ cp' = [cp EXCEPT ![c] = [cp[c] EXCEPT !.wroteAt = now, !.pc = "done"]]
  /\ UNCHANGED <<roles, members, ur, storeEpoch>>
  /\ UNCHANGED outsideRbac

\* The rest of checkPermission (some(...) twice, then the or) reads action, resource
\* and resourceId only here, after the last await: a finished call answers every
\* (action, resource, resourceId) from the permission list it resolved.
Result(c, action, resource, resourceId) ==
  Decide(cp[c].permissions, action, resource, resourceId)

----------------------------------------------------------------------------
(* RbacService.updateRole *)

\* The lookup of updateRole without the isSystem filter.
UrFindAnyRole(roleId, orgId, hasPerms, perms) ==
  /\ ur.pc = "idle"
  /\ LET found == roles[roleId].exists /\ roles[roleId].orgId = orgId
     IN ur' = [ur EXCEPT !.roleId = roleId, !.orgId = orgId, !.hasPerms = hasPerms,
                         !.permissions = perms,
                         !.pc = IF found THEN "update" ELSE "done",
                         !.result = IF found THEN "none" ELSE "NotFound"]
  /\ UNCHANGED <<roles, members, permCache, cp, storeEpoch>>
  /\ UNCHANGED outsideRbac

\* role.findFirst({id, orgId, isSystem: false}); a miss throws NotFound.
UrFind(roleId, orgId, hasPerms, perms) ==
  /\ ur.pc = "idle"
  /\ LET found == roles[roleId].exists /\ roles[roleId].orgId = orgId /\ ~roles[roleId].isSystem
     IN ur' = [ur EXCEPT !.roleId = roleId, !.orgId = orgId, !.hasPerms = hasPerms,
                         !.permissions = perms,
                         !.pc = IF found THEN "update" ELSE "done",
                         !.result = IF found THEN "none" ELSE "NotFound"]
  /\ UNCHANGED <<roles, members, permCache, cp, storeEpoch>>
  /\ UNCHANGED outsideRbac

\* role.update: with updates.permissions given, deleteMany then create.
UrUpdate ==
  /\ ur.pc = "update"
  /\ roles' = [roles EXCEPT ![ur.roleId].permissions =
                 IF ur.hasPerms THEN ur.permissions ELSE @]
  /\ ur' = [ur EXCEPT !.old = roles[ur.roleId].permissions, !.pc = "findMany"]
  /\ storeEpoch' = storeEpoch + 1
  /\ UNCHANGED <<members, permCache, cp>>
  /\ UNCHANGED outsideRbac

\* clearRolePermissionCache: organizationMember.findMany({roleId, orgId, isActive: true})
RoleMembers(roleId, orgId) ==
  {u \in UserIds : LET m == members[<<u, orgId>>] IN m.exists /\ m.isActive /\ m.roleId = roleId}

UrFindMany ==
  /\ ur.pc = "findMany"
  /\ ur' = [ur EXCEPT !.todo = RoleMembers(ur.roleId, ur.orgId), !.pc = "del"]
  /\ UNCHANGED <<roles, members, permCache, cp, storeEpoch>>
  /\ UNCHANGED outsideRbac

\* clearUserPermissionCache for the next member of the list (findMany gives no order)
UrDel ==
  /\ ur.pc = "del"
  /\ \E u \in ur.todo :
       /\ permCache' = [permCache EXCEPT ![CacheKey(u, ur.orgId)] = NoEntry]
       /\ ur' = [ur EXCEPT !.todo = @ \ {u}]
  /\ UNCHANGED <<roles, members, cp, storeEpoch>>
  /\ UNCHANGED outsideRbac

\* logAuditEvent and return
UrReturn ==
  /\ ur.pc = "del"
  /\ ur.todo = {}
  /\ auditLog' = LogAuditEvent(auditLog, Admin, "UPDATE", auditDown).log
  /\ ur' = [ur EXCEPT !.pc = "done",
                      !.result = AfterAudit(LogAuditEvent(auditLog, Admin, "UPDATE", auditDown),
                                            "ok")]
  /\ UNCHANGED <<roles, members, permCache, cp, storeEpoch>>
  /\ UNCHANGED <<clockVars, tokenVars, attempts, failLog, lastLogin, callVars, laterVars>>

----------------------------------------------------------------------------
(* RbacService.assignRole / createRole / deleteRole *)

\* The record of a call that has returned: what it did, for whom, how many audit
\* records there were when it returned, and whether a checkPermission call for
\* the same (principal, tenant) was in flight while it ran.
RoleCall(op, result, wrote) ==
  [op |-> op, result |-> result, wrote |-> wrote, flip |-> ~rb.flip,
   userId |-> NoId, orgId |-> NoOrg, roleId |-> NoRole, quiet |-> TRUE, at |-> Len(auditLog')]

CheckInFlight(userId, orgId) ==
  \E c \in CallIds : cp[c].pc \in {"find", "setex"} /\ cp[c].userId = userId /\ cp[c].orgId = orgId

MemberCall(op, result, wrote, userId, orgId, roleId) ==
  [RoleCall(op, result, wrote) EXCEPT !.userId = userId, !.orgId = orgId, !.roleId = roleId,
                                      !.quiet = ~CheckInFlight(userId, orgId)]

\* organizationMember.upsert({where: {userId_orgId}, update: {roleId, isActive:
\* true}, create: {userId, orgId, roleId, isActive: true}}) as one statement.
Upsert(m, roleId) ==
  IF m.exists THEN [m EXCEPT !.roleId = roleId, !.isActive = TRUE] ELSE Member(roleId, TRUE)

\* assignRole that looks the role up by its id alone.
AssignRoleAnyTenant(userId, orgId, roleId) ==
  /\ Len(auditLog) < MaxAudits
  /\ IF roles[roleId].exists
     THEN LET audit == LogAuditEvent(auditLog, Admin, "UPDATE", auditDown) IN
          /\ members' = [members EXCEPT ![<<userId, orgId>>] = Upsert(@, roleId)]
          /\ permCache' = [permCache EXCEPT ![CacheKey(userId, orgId)] = NoEntry]
          /\ auditLog' = audit.log
          /\ rb' = MemberCall("assignRole", AfterAudit(audit, "ok"), TRUE, userId, orgId, roleId)
     ELSE /\ UNCHANGED <<members, permCache, auditLog>>
          /\ rb' = MemberCall("assignRole", "NotFound", FALSE, userId, orgId, roleId)
  /\ UNCHANGED roles
  /\ UNCHANGED outsideRoles

\* assignRole that leaves the cache entry of the user in place.
AssignRoleKeepsCache(userId, orgId, roleId) ==
  /\ Len(auditLog) < MaxAudits
  /\ IF roles[roleId].exists /\ roles[roleId].orgId = orgId
     THEN LET audit == LogAuditEvent(auditLog, Admin, "UPDATE", auditDown) IN
          /\ members' = [members EXCEPT ![<<userId, orgId>>] = Upsert(@, roleId)]
          /\ auditLog' = audit.log
          /\ rb' = MemberCall("assignRole", AfterAudit(audit, "ok"), TRUE, userId, orgId, roleId)
          /\ UNCHANGED permCache
     ELSE /\ UNCHANGED <<members, permCache, auditLog>>
          /\ rb' = MemberCall("assignRole", "NotFound", FALSE, userId, orgId, roleId)
  /\ UNCHANGED roles
  /\ UNCHANGED outsideRoles

\* assignRole(userId, orgId, roleId, assignedBy), one call from start to finish:
\* role.findFirst({id, orgId}), organizationMember.upsert,
\* clearUserPermissionCache, logAuditEvent.
AssignRole(userId, orgId, roleId) ==
  /\ Len(auditLog) < MaxAudits
  /\ IF roles[roleId].exists /\ roles[roleId].orgId = orgId
     THEN LET audit == LogAuditEvent(auditLog, Admin, "UPDATE", auditDown) IN
          /\ members' = [members EXCEPT ![<<userId, orgId>>] = Upsert(@, roleId)]
          /\ permCache' = [permCache EXCEPT ![CacheKey(userId, orgId)] = NoEntry]
          /\ auditLog' = audit.log
          /\ rb' = MemberCall("assignRole", AfterAudit(audit, "ok"), TRUE, userId, orgId, roleId)
     ELSE /\ UNCHANGED <<members, permCache, auditLog>>
          /\ rb' = MemberCall("assignRole", "NotFound", FALSE, userId, orgId, roleId)
  /\ UNCHANGED roles
  /\ UNCHANGED outsideRoles

\* removeFromOrganization whose updateMany filters on the userId alone.
RemoveFromEveryOrganization(userId, orgId) ==
  /\ Len(auditLog) < MaxAudits
  /\ LET audit == LogAuditEvent(auditLog, Admin, "DELETE", auditDown) IN
     /\ members' = [k \in DOMAIN members |->
                      IF k[1] = userId /\ members[k].exists
                      THEN [members[k] EXCEPT !.isActive = FALSE] ELSE members[k]]
     /\ permCache' = [permCache EXCEPT ![CacheKey(userId, orgId)] = NoEntry]
     /\ auditLog' = audit.log
     /\ rb' = MemberCall("removeFromOrganization", AfterAudit(audit, "ok"),
                         members[<<userId, orgId>>].exists, userId, orgId, NoRole)
  /\ UNCHANGED roles
  /\ UNCHANGED outsideRoles

\* removeFromOrganization(userId, orgId, removedBy), one call from start to finish:
\* organizationMember.updateMany({userId, orgId}, {isActive: false}),
\* clearUserPermissionCache, logAuditEvent.
RemoveFromOrganization(userId, orgId) ==
  /\ Len(auditLog) < MaxAudits
  /\ LET audit == LogAuditEvent(auditLog, Admin, "DELETE", auditDown) IN
     /\ members' = [members EXCEPT ![<<userId, orgId>>] =
                      IF @.exists THEN [@ EXCEPT !.isActive = FALSE] ELSE @]
     /\ permCache' = [permCache EXCEPT ![CacheKey(userId, orgId)] = NoEntry]
     /\ auditLog' = audit.log
     /\ rb' = MemberCall("removeFromOrganization", AfterAudit(audit, "ok"),
                         members[<<userId, orgId>>].exists, userId, orgId, NoRole)
  /\ UNCHANGED roles
  /\ UNCHANGED outsideRoles

\* assignRole step by step, for calls that run at the same time.
\* role.findFirst({id: roleId, orgId}); a miss throws NotFound.
AsFind(a, userId, orgId, roleId) ==
  /\ up[a].pc = "idle"
  /\ \A b \in AssignCallIds : b < a => up[b].pc # "idle"
  /\ LET found == roles[roleId].exists /\ roles[roleId].orgId = orgId IN
     up' = [up EXCEPT ![a] = [@ EXCEPT !.userId = userId, !.orgId = orgId, !.roleId = roleId,
                                       !.pc = IF found THEN "upsert" ELSE "done",
                                       !.result = IF found THEN "none" ELSE "NotFound"]]
  /\ UNCHANGED <<members, permCache, auditLog>>
  /\ UNCHANGED outsideAssign

\* A write of a membership that names a role which is gone: the foreign key of
\* organization_members either refuses it or is not there (the schema decides
\* which).
UpsertOutcomes(roleId) ==
  IF roles[roleId].exists THEN {"ok"} ELSE {"ok", "ForeignKeyViolation"}

\* organizationMember.upsert sent to the database as one INSERT .. ON CONFLICT
\* DO UPDATE statement.
AsUpsert(a) ==
  /\ up[a].pc = "upsert"
  /\ \E outcome \in UpsertOutcomes(up[a].roleId) :
       IF outcome = "ok"
       THEN /\ members' = [members EXCEPT ![<<up[a].userId, up[a].orgId>>] =
                             Upsert(@, up[a].roleId)]
            /\ up' = [up EXCEPT ![a].pc = "del"]
       ELSE /\ UNCHANGED members
            /\ up' = [up EXCEPT ![a] = [@ EXCEPT !.pc = "done", !.result = outcome]]
  /\ UNCHANGED <<permCache, auditLog>>
  /\ UNCHANGED outsideAssign

\* organizationMember.upsert run by the client as a read followed by a write:
\* the read.
AsUpsertRead(a) ==
  /\ up[a].pc = "upsert"
  /\ up' = [up EXCEPT ![a] = [@ EXCEPT !.found = members[<<up[a].userId, up[a].orgId>>].exists,
                                       !.pc = "write"]]
  /\ UNCHANGED <<members, permCache, auditLog>>
  /\ UNCHANGED outsideAssign

\* An insert that no unique index on (userId, orgId) holds back.
CreateRowUnchecked(m, roleId) ==
  [exists |-> TRUE, roleId |-> roleId, isActive |-> TRUE, rows |-> m.rows + 1]

\* The insert of the upsert: the unique index on (userId, orgId) refuses a second
\* row for the pair.
CreateRow(m, roleId) ==
  IF m.rows > 0 THEN m ELSE Member(roleId, TRUE)

\* The write of the upsert: an update of the row the read found, or else an
\* insert, which fails when another call has inserted the row in the meantime;
\* the error leaves assignRole through its catch.
AsUpsertWrite(a) ==
  /\ up[a].pc = "write"
  /\ LET k == <<up[a].userId, up[a].orgId>>
         m == members[k]
         written == IF up[a].found THEN Upsert(m, up[a].roleId) ELSE CreateRow(m, up[a].roleId)
         refused == ~up[a].found /\ written = m /\ m.exists
     IN
     /\ members' = [members EXCEPT ![k] = written]
     /\ up' = [up EXCEPT ![a] = [@ EXCEPT !.raced = (m.exists # up[a].found),
                                         !.pc = IF refused THEN "done" ELSE "del",
                                         !.result = IF refused THEN "UniqueViolation" ELSE "none"]]
  /\ UNCHANGED <<permCache, auditLog>>
  /\ UNCHANGED outsideAssign

\* clearUserPermissionCache
AsDel(a) ==
  /\ up[a].pc = "del"
  /\ permCache' = [permCache EXCEPT ![CacheKey(up[a].userId, up[a].orgId)] = NoEntry]
  /\ up' = [up EXCEPT ![a].pc = "audit"]
  /\ UNCHANGED <<members, auditLog>>
  /\ UNCHANGED outsideAssign

\* logAuditEvent and return
AsAudit(a) ==
  /\ up[a].pc = "audit"
  /\ LET audit == LogAuditEvent(auditLog, Admin, "UPDATE", auditDown) IN
     /\ auditLog' = audit.log
     /\ up' = [up EXCEPT ![a] = [@ EXCEPT !.pc = "done", !.result = AfterAudit(audit, "ok")]]
  /\ UNCHANGED <<members, permCache>>
  /\ UNCHANGED outsideAssign

AssignCalls ==
  \/ \E a \in AssignCallIds, u \in UserIds, o \in OrgIds, r \in RoleIds : AsFind(a, u, o, r)
  \/ \E a \in AssignCallIds : AsUpsert(a)
  \/ \E a \in AssignCallIds : AsUpsertRead(a)
  \/ \E a \in AssignCallIds : AsUpsertWrite(a)
  \/ \E a \in AssignCallIds : AsDel(a)
  \/ \E a \in AssignCallIds : AsAudit(a)

\* createRole(orgId, name, description, permissions, createdBy): role.create with
\* its permissions, logAuditEvent. The store picks the id of the new role.
CreateRole(roleId, orgId, permissions) ==
  /\ Len(auditLog) < MaxAudits
  /\ ~roles[roleId].exists
  /\ LET audit == LogAuditEvent(auditLog, Admin, "CREATE", auditDown) IN
     /\ roles' = [roles EXCEPT ![roleId] =
                    [exists |-> TRUE, orgId |-> orgId, isSystem |-> FALSE,
                     permissions |-> permissions]]
     /\ auditLog' = audit.log
     /\ rb' = RoleCall("createRole", AfterAudit(audit, "ok"), TRUE)
  /\ UNCHANGED <<members, permCache>>
  /\ UNCHANGED outsideRoles

\* A membership row, active or not, references the role.
Referenced(roleId) == \E k \in DOMAIN members : members[k].exists /\ members[k].roleId = roleId

\* role.delete({id}): the rows of removed members still reference the role, and
\* the foreign key of organization_members either lets the role go or refuses
\* the delete (the schema decides which).
RoleDeleteOutcomes(roleId) == IF Referenced(roleId) THEN {"ok", "ForeignKeyViolation"} ELSE {"ok"}

\* deleteRole(roleId, orgId, deletedBy): role.findFirst({id, orgId, isSystem:
\* false}), organizationMember.count({roleId, isActive: true}), role.delete,
\* logAuditEvent.
DeleteRole(roleId, orgId) ==
  /\ Len(auditLog) < MaxAudits
  /\ IF ~(roles[roleId].exists /\ roles[roleId].orgId = orgId /\ ~roles[roleId].isSystem)
     THEN /\ UNCHANGED <<roles, auditLog>>
          /\ rb' = MemberCall("deleteRole", "NotFound", FALSE, NoId, orgId, roleId)
     ELSE IF \E k \in DOMAIN members :
               members[k].exists /\ members[k].isActive /\ members[k].roleId = roleId
     THEN /\ UNCHANGED <<roles, auditLog>>
          /\ rb' = MemberCall("deleteRole", "Forbidden", FALSE, NoId, orgId, roleId)
     ELSE \E outcome \in RoleDeleteOutcomes(roleId) :
          IF outcome = "ok"
          THEN LET audit == LogAuditEvent(auditLog, Admin, "DELETE", auditDown) IN
               /\ roles' = [roles EXCEPT ![roleId].exists = FALSE]
               /\ auditLog' = audit.log
               /\ rb' = MemberCall("deleteRole", AfterAudit(audit, "ok"), TRUE, NoId, orgId, roleId)
          ELSE /\ UNCHANGED <<roles, auditLog>>
               /\ rb' = MemberCall("deleteRole", outcome, FALSE, NoId, orgId, roleId)
  /\ UNCHANGED <<members, permCache>>
  /\ UNCHANGED outsideRoles

\* deleteRole step by step, for a call that runs while assignRole calls run.
\* role.findFirst({id, orgId, isSystem: false}); a miss throws NotFound.
DrFind(roleId, orgId) ==
  /\ dr.pc = "idle"
  /\ LET found == roles[roleId].exists /\ roles[roleId].orgId = orgId /\ ~roles[roleId].isSystem
     IN  dr' = [pc |-> IF found THEN "count" ELSE "done", roleId |-> roleId, orgId |-> orgId,
                result |-> IF found THEN "none" ELSE "NotFound"]
  /\ UNCHANGED <<roles, auditLog>>
  /\ UNCHANGED outsideDelete

\* organizationMember.count({roleId, isActive: true}); more than none throws
\* Forbidden.
DrCount ==
  /\ dr.pc = "count"
  /\ LET inUse == \E k \in DOMAIN members :
                    members[k].exists /\ members[k].isActive /\ members[k].roleId = dr.roleId
     IN  dr' = [dr EXCEPT !.pc = IF inUse THEN "done" ELSE "delete",
                          !.result = IF inUse THEN "Forbidden" ELSE "none"]
  /\ UNCHANGED <<roles, auditLog>>
  /\ UNCHANGED outsideDelete

\* role.delete({id}), logAuditEvent and return.
DrDelete ==
  /\ dr.pc = "delete"
  /\ Len(auditLog) < MaxAudits
  /\ \E outcome \in RoleDeleteOutcomes(dr.roleId) :
       IF outcome = "ok"
       THEN LET audit == LogAuditEvent(auditLog, Admin, "DELETE", auditDown) IN
            /\ roles' = [roles EXCEPT ![dr.roleId].exists = FALSE]
            /\ auditLog' = audit.log
            /\ dr' = [dr EXCEPT !.pc = "done", !.result = AfterAudit(audit, "ok")]
       ELSE /\ UNCHANGED <<roles, auditLog>>
            /\ dr' = [dr EXCEPT !.pc = "done", !.result = outcome]
  /\ UNCHANGED outsideDelete

\* The ids that the store gives to the roles initializeDefaultRoles creates, named
\* here after the roles, in the order of creation.
SeededRoleIds == <<"admin", "developer", "viewer">>

Crud == {"CREATE", "READ", "UPDATE", "DELETE"}

\* The defaultRoles array: Admin, Developer, Viewer.
DefaultRoles ==
  <<[isSystem |-> TRUE, permissions |-> {Perm("ADMIN", "ORGANIZATION")}],
    [isSystem |-> TRUE,
     permissions |-> {Perm(a, "DESIGN") : a \in Crud \cup {"DEPLOY"}}
                       \cup {Perm(a, r) : a \in Crud, r \in {"TEMPLATE", "PIPELINE"}}
                       \cup {Perm("READ", "STATE")}],
    [isSystem |-> TRUE,
     permissions |-> {Perm("READ", r) : r \in {"DESIGN", "TEMPLATE", "PIPELINE", "STATE"}}]>>

\* initializeDefaultRoles(orgId): one role.create per entry of defaultRoles, in
\* order and with no transaction around them; a create that fails ends the call
\* with the roles created so far in place.
InitializeDefaultRoles(orgId, created) ==
  /\ \A i \in DOMAIN SeededRoleIds : ~roles[SeededRoleIds[i]].exists
  /\ roles' = [r \in DOMAIN roles |->
                IF \E i \in 1 .. created : SeededRoleIds[i] = r
                THEN LET i == CHOOSE j \in 1 .. created : SeededRoleIds[j] = r IN
                     [exists |-> TRUE, orgId |-> orgId, isSystem |-> DefaultRoles[i].isSystem,
                      permissions |-> DefaultRoles[i].permissions]
                ELSE roles[r]]
  /\ UNCHANGED <<members, permCache, auditLog>>
  /\ rb' = MemberCall("initializeDefaultRoles",
                      IF created = Len(DefaultRoles) THEN "ok" ELSE "StoreError",
                      created > 0, NoId, orgId, NoRole)
  /\ UNCHANGED outsideRoles

\* The first user is given a role, roles are deleted and created.
RoleCalls ==
  \/ \E o \in OrgIds, r \in RoleIds : AssignRole("u1", o, r)
  \/ \E r \in RoleIds, o \in OrgIds : CreateRole(r, o, {Perm("READ", "DESIGN")})
  \/ \E r \in RoleIds, o \in OrgIds : DeleteRole(r, o)

----------------------------------------------------------------------------

RbacCalls(F) ==
  \/ \E c \in CallIds, u \in UserIds, o \in OrgIds \cup {NoOrg}, f \in F : CpGet(c, u, o, f)
  \/ \E c \in CallIds, f \in F : CpFind(c, f)
  \/ \E c \in CallIds, f \in F : CpSetex(c, f)

RbacUpdate ==
  \/ \E r \in RoleIds, o \in OrgIds, p \in UpdateLists : UrFind(r, o, TRUE, p)
  \/ \E r \in RoleIds, o \in OrgIds : UrFind(r, o, FALSE, {})
  \/ UrUpdate
  \/ UrFindMany
  \/ UrDel
  \/ UrReturn

----------------------------------------------------------------------------
(* AuthService: principals, the clock and signed tokens *)

Principals == {"alice", "bob", "carol"}

refreshTokenExpiry == 7 * 24 * 60 * 60

\* jwtService.signAsync(payload, {secret: JWT_REFRESH_SECRET, expiresIn: '7d'}):
\* the string is determined by sub (and email), iat and exp, all in whole seconds.
SignRefresh(userId, at) ==
  [sub |-> userId, iat |-> at, exp |-> at + refreshTokenExpiry, sig |-> "refresh"]

\* A string that is not signed with the refresh secret.
ForgedToken == [sub |-> "alice", iat |-> 0, exp |-> refreshTokenExpiry, sig |-> "forged"]

\* jwtService.verify(token, {secret: JWT_REFRESH_SECRET}): signature and exp.
JwtVerify(token, at) == token.sig = "refresh" /\ at < token.exp

NewRecord(id, userId, token, at) ==
  [id |-> id, userId |-> userId, token |-> token, expiresAt |-> at + refreshTokenExpiry,
   isRevoked |-> FALSE]

\* refreshToken.findFirst({token, userId: payload.sub, isRevoked: false, expiresAt > now})
FindStored(token, at) ==
  {r \in refreshTokens :
     r.token = token /\ r.userId = token.sub /\ ~r.isRevoked /\ r.expiresAt > at}

\* cleanupExpiredTokens: deleteMany({userId, OR: [expiresAt < now, isRevoked]})
Cleanup(records, userId, at) ==
  {r \in records : ~(r.userId = userId /\ (r.expiresAt < at \/ r.isRevoked))}

\* bcrypt.hash / bcrypt.compare
BcryptHash(password) == <<"bcrypt", password>>

BcryptCompare(password, hash) == hash = BcryptHash(password)

\* encryptionService.encryptSecret / decryptSecret
EncryptSecret(secret) == <<"enc", secret>>

DecryptSecret(cipher) == cipher[2]

NoSecret == <<"enc", "none">>

\* alice has no MFA, bob has MFA enabled, carol is deactivated.
InitialUser(u) ==
  [isActive |-> (u # "carol"),
   passwordHash |-> BcryptHash("pw1"),
   mfaEnabled |-> (u = "bob"),
   mfaSecret |-> IF u = "bob" THEN EncryptSecret("s1") ELSE NoSecret,
   lastLoginAt |-> 0]

ClockInit ==
  /\ now = 0
  /\ ticks = 0

\* alice and carol have logged in at second 0; carol was deactivated afterwards.
TokenInit ==
  /\ users = [u \in Principals |-> InitialUser(u)]
  /\ refreshTokens = {NewRecord(1, "alice", SignRefresh("alice", 0), 0),
                      NewRecord(2, "carol", SignRefresh("carol", 0), 0)}
  /\ nextTokenId = 3
  /\ issued = {SignRefresh("alice", 0), SignRefresh("carol", 0)}
  /\ rt = [t \in 1 .. MaxRefreshCalls |->
            [pc |-> "idle", token |-> ForgedToken, storedId |-> 0, userId |-> "alice",
             newToken |-> ForgedToken, result |-> "none",
             alone |-> TRUE, usable |-> FALSE, reused |-> FALSE, revoked |-> FALSE]]

\* Time passes; Redis drops the counters whose TTL has run out.
Tick(d, limit) ==
  /\ ticks < limit
  /\ now' = now + d
  /\ ticks' = ticks + 1
  /\ attempts' = [k \in DOMAIN attempts |->
                   IF RedisLiveAt(attempts[k], now + d) THEN attempts[k] ELSE NoEntry]
  /\ UNCHANGED <<rbacVars, tokenVars, auditLog, failLog, lastLogin, callVars, laterVars>>

----------------------------------------------------------------------------
(* AuthService.refreshToken *)

RefreshCallIds == 1 .. MaxRefreshCalls

InFlight(t) == rt[t].pc \notin {"idle", "done"}

Fail(call) == [call EXCEPT !.pc = "done", !.result = "Unauthorized"]

\* refreshToken with theft detection: a refused call revokes every record of the
\* principal the presented token names.
RtFindFamily(t, token) ==
  /\ rt[t].pc = "idle"
  /\ \A d \in RefreshCallIds : d < t => rt[d].pc # "idle"
  /\ LET found == FindStored(token, now)
         refused == ~JwtVerify(token, now) \/ \A r \in found : ~users[r.userId].isActive
         started == [rt[t] EXCEPT !.token = token, !.usable = ~refused,
                                  !.reused = \E d \in RefreshCallIds :
                                                rt[d].pc = "done" /\ rt[d].result = "ok"
                                                  /\ rt[d].token = token]
     IN
     IF refused
     THEN /\ rt' = [rt EXCEPT ![t] = Fail(started)]
          /\ refreshTokens' = {IF r.userId = token.sub THEN [r EXCEPT !.isRevoked = TRUE] ELSE r :
                                 r \in refreshTokens}
     ELSE /\ \E r \in found :
               rt' = [rt EXCEPT ![t] = [started EXCEPT !.storedId = r.id, !.userId = r.userId,
                                                       !.pc = "revoke"]]
          /\ UNCHANGED refreshTokens
  /\ UNCHANGED <<users, nextTokenId, issued>>
  /\ UNCHANGED outsideToken

\* jwtService.verify, then refreshToken.findFirst with the user included.
RtFind(t, token) ==
  /\ rt[t].pc = "idle"
  /\ \A d \in RefreshCallIds : d < t => rt[d].pc # "idle"
  /\ LET found == FindStored(token, now)
         valid == JwtVerify(token, now)
         others == {d \in RefreshCallIds : InFlight(d)}
         started == [rt[t] EXCEPT
                       !.token = token,
                       !.alone = (others = {}),
                       !.usable = (valid /\ \E r \in found : users[r.userId].isActive),
                       !.reused = \E d \in RefreshCallIds :
                                     rt[d].pc = "done" /\ rt[d].result = "ok" /\ rt[d].token = token]
         mark == [d \in RefreshCallIds |-> IF d \in others THEN [rt[d] EXCEPT !.alone = FALSE] ELSE rt[d]]
     IN
     IF ~valid \/ found = {}
     THEN rt' = [mark EXCEPT ![t] = Fail(started)]
     ELSE \E r \in found :
            rt' = [mark EXCEPT ![t] =
                     IF users[r.userId].isActive
                     THEN [started EXCEPT !.storedId = r.id, !.userId = r.userId, !.pc = "revoke"]
                     ELSE Fail(started)]
  /\ UNCHANGED <<users, refreshTokens, nextTokenId, issued>>
  /\ UNCHANGED outsideToken

\* refreshToken.update({where: {id}, data: {isRevoked: true}}); throws if the
\* record is gone.
RtRevoke(t) ==
  /\ rt[t].pc = "revoke"
  /\ IF \E r \in refreshTokens : r.id = rt[t].storedId
     THEN /\ refreshTokens' = {IF r.id = rt[t].storedId THEN [r EXCEPT !.isRevoked = TRUE] ELSE r :
                                 r \in refreshTokens}
          /\ rt' = [rt EXCEPT ![t].pc = "sign", ![t].revoked = TRUE]
     ELSE /\ rt' = [rt EXCEPT ![t] = Fail(rt[t])]
          /\ UNCHANGED refreshTokens
  /\ UNCHANGED <<users, nextTokenId, issued>>
  /\ UNCHANGED outsideToken

\* generateTokens: Promise.all of the two signAsync calls.
RtSign(t, fails) ==
  /\ rt[t].pc = "sign"
  /\ rt' = [rt EXCEPT ![t] =
             IF fails THEN Fail(rt[t])
             ELSE [rt[t] EXCEPT !.newToken = SignRefresh(rt[t].userId, now), !.pc = "create"]]
  /\ UNCHANGED <<users, refreshTokens, nextTokenId, issued>>
  /\ UNCHANGED outsideToken

\* generateTokens: refreshToken.create. The schema is not part of the sources: a
\* token string that is already stored is either rejected (unique column) or kept
\* as a second record.
RtCreate(t, fails) ==
  /\ rt[t].pc = "create"
  /\ \/ /\ fails \/ \E r \in refreshTokens : r.token = rt[t].newToken
        /\ rt' = [rt EXCEPT ![t] = Fail(rt[t])]
        /\ UNCHANGED <<refreshTokens, nextTokenId>>
     \/ /\ ~fails
        /\ refreshTokens' = refreshTokens \cup
                              {NewRecord(nextTokenId, rt[t].userId, rt[t].newToken, now)}
        /\ nextTokenId' = nextTokenId + 1
        /\ rt' = [rt EXCEPT ![t].pc = "cleanup"]
  /\ UNCHANGED <<users, issued>>
  /\ UNCHANGED outsideToken

\* generateTokens: cleanupExpiredTokens (its own failure is only logged), then
\* refreshToken returns the new pair.
RtCleanup(t, fails) ==
  /\ rt[t].pc = "cleanup"
  /\ refreshTokens' = IF fails THEN refreshTokens ELSE Cleanup(refreshTokens, rt[t].userId, now)
  /\ rt' = [rt EXCEPT ![t].pc = "done", ![t].result = "ok"]
  /\ issued' = issued \cup {rt[t].newToken}
  /\ UNCHANGED <<users, nextTokenId>>
  /\ UNCHANGED outsideToken

TokenCalls(F) ==
  \/ \E t \in RefreshCallIds, token \in issued \cup {ForgedToken} : RtFind(t, token)
  \/ \E t \in RefreshCallIds : RtRevoke(t)
  \/ \E t \in RefreshCallIds, f \in F : RtSign(t, f)
  \/ \E t \in RefreshCallIds, f \in F : RtCreate(t, f)
  \/ \E t \in RefreshCallIds, f \in F : RtCleanup(t, f)

----------------------------------------------------------------------------
(* AuthService.login *)

maxLoginAttempts == 5

lockoutDuration == 15 * 60

\* Emails no user has.
UnknownEmail == "nobody"

Stranger == "stranger"

\* The origins a request can come from.
AllOrigins == {"ip1", "ip2"}

\* The origins the clients of one run use: those with a counter key.
Origins == {o \in AllOrigins : <<"login_attempts", o>> \in DOMAIN attempts}

\* The email whose history of failures is followed: the domain of failLog holds
\* it (and the origins whose history is followed too).
Watched == DOMAIN failLog \ AllOrigins

\* The emails the clients of one run log in with: the watched one and an
\* unknown one.
Emails == Watched \cup {UnknownEmail}

NoIp == "noip"

Passwords == {"pw1", "bad"}

AttemptKey(id) == <<"login_attempts", id>>

\* speakeasy.totp: a code is good for its 30-second step and `window` steps
\* either side.
TotpStep == 30

TotpWindow == 2

Totp(secret, at) == [secret |-> secret, step |-> at \div TotpStep]

TotpVerify(secret, token) ==
  /\ token.secret = secret
  /\ token.step - (now \div TotpStep) \in (0 - TotpWindow) .. TotpWindow

NoToken == [secret |-> "none", step |-> 0]

\* no code, the current code, a code that has aged out
MfaTokens == {NoToken, Totp("s1", now), Totp("s1", now - (TotpWindow + 1) * TotpStep)}

\* parseInt of what RedisService.get handed back
ParseInt(v) == v.doc

LoginKeys(email, ip) ==
  IF ip = NoIp THEN {AttemptKey(email)} ELSE {AttemptKey(email), AttemptKey(ip)}

OverLimit(key) ==
  LET found == RedisGet(attempts[key], FALSE)
  IN  Truthy(found) /\ ParseInt(found) >= maxLoginAttempts

CheckRateLimitAbove(email, ip) ==
  \E key \in LoginKeys(email, ip) :
    LET found == RedisGet(attempts[key], FALSE)
    IN  Truthy(found) /\ ParseInt(found) > maxLoginAttempts

CheckRateLimitEmailOnly(email, ip) == OverLimit(AttemptKey(email))

\* checkRateLimit: TRUE when it throws 'Too many login attempts'.
CheckRateLimit(email, ip) == \E key \in LoginKeys(email, ip) : OverLimit(key)

\* incrementFailedAttempts: incr, then expire, for each key.
IncrementEmailOnly(email, ip) ==
  [k \in DOMAIN attempts |->
    IF k = AttemptKey(email)
    THEN RedisExpire(RedisIncr(attempts[k]), lockoutDuration)
    ELSE attempts[k]]

IncrementFailedAttempts(email, ip) ==
  [k \in DOMAIN attempts |->
    IF k \in LoginKeys(email, ip)
    THEN RedisExpire(RedisIncr(attempts[k]), lockoutDuration)
    ELSE attempts[k]]

ResetFailedAttemptsBad(email, ip) == attempts

\* resetFailedAttempts: del for each key.
ResetFailedAttempts(email, ip) ==
  [k \in DOMAIN attempts |-> IF k \in LoginKeys(email, ip) THEN NoEntry ELSE attempts[k]]

OutcomeCodeUnchecked(email, password, mfaToken, ip) ==
  IF CheckRateLimit(email, ip) THEN "TooManyAttempts"
  ELSE IF email \notin DOMAIN users \/ ~users[email].isActive THEN "InvalidCredentials"
  ELSE IF ~BcryptCompare(password, users[email].passwordHash) THEN "InvalidCredentials"
  ELSE IF users[email].mfaEnabled /\ mfaToken = NoToken THEN "MfaChallenge"
  ELSE "passed"

\* What login does with the request, in the order of its checks.
Outcome(email, password, mfaToken, ip) ==
  IF CheckRateLimit(email, ip) THEN "TooManyAttempts"
  ELSE IF email \notin DOMAIN users \/ ~users[email].isActive THEN "InvalidCredentials"
  ELSE IF ~BcryptCompare(password, users[email].passwordHash) THEN "InvalidCredentials"
  ELSE IF users[email].mfaEnabled /\ mfaToken = NoToken THEN "MfaChallenge"
  ELSE IF users[email].mfaEnabled
          /\ ~TotpVerify(DecryptSecret(users[email].mfaSecret), mfaToken) THEN "InvalidMfaToken"
  ELSE "passed"

\* The request carries what a fully successful login needs.
CorrectCredentials(email, password, mfaToken) ==
  /\ email \in DOMAIN users
  /\ users[email].isActive
  /\ BcryptCompare(password, users[email].passwordHash)
  /\ users[email].mfaEnabled =>
       (mfaToken # NoToken /\ TotpVerify(DecryptSecret(users[email].mfaSecret), mfaToken))

\* The counter Redis holds for an identifier, 0 when it holds none.
CounterOf(id) ==
  LET entry == attempts[AttemptKey(id)]
  IN  IF RedisLive(entry) THEN entry.value.doc ELSE 0

NoFailures == [consec |-> 0, lastAt |-> 0, success |-> "none"]

NoLogin ==
  [outcome |-> "none", correct |-> FALSE, fiveBefore |-> FALSE, elapsed |-> FALSE,
   originFiveBefore |-> FALSE, origin |-> NoIp, passwordOnly |-> FALSE,
   emailLocked |-> FALSE, originLocked |-> FALSE, readUser |-> FALSE,
   comparedPassword |-> FALSE, duplicate |-> FALSE]

\* No login has been tried yet; requests will come for one watched email and an
\* unknown one, from the given origins, and the history of failures is followed
\* for the watched email and the given ones of the origins.
LoginStart(watched, origins, followed) ==
  /\ attempts = [k \in {AttemptKey(id) : id \in {watched, UnknownEmail} \cup origins} |-> NoEntry]
  /\ auditLog = <<>>
  /\ failLog = [e \in {watched} \cup followed |-> NoFailures]
  /\ lastLogin = NoLogin

\* The watched email is a user's or a stranger's.
LoginInit == \E e \in Principals \cup {Stranger} : LoginStart(e, {"ip1"}, {})

LoginIdle == LoginStart(Stranger, {"ip1"}, {})

\* Two origins, both followed; the watched email is that of the user with MFA.
LockoutInit == LoginStart("bob", AllOrigins, AllOrigins)

Least(a, b) == IF a < b THEN a ELSE b

\* The history of counted failures of an email after one more call: the
\* failures in a row, each within the lockout window of the one before, and
\* whether a login has succeeded (after failures, or after none).
Counted(log, outcome) ==
  IF outcome \in {"InvalidCredentials", "InvalidMfaToken"}
  THEN [log EXCEPT
          !.consec = IF now < log.lastAt + lockoutDuration
                     THEN Least(log.consec + 1, maxLoginAttempts) ELSE 1,
          !.lastAt = now]
  ELSE IF outcome = "ok"
  THEN [consec |-> 0, lastAt |-> 0,
        success |-> IF log.consec > 0 THEN "afterFailures" ELSE "clean"]
  ELSE IF outcome = "StoreError"
  THEN [log EXCEPT !.consec = 0, !.lastAt = 0]
  ELSE log

\* What is recorded of a call: how it ended and what held when it started.
CallRecord(email, password, mfaToken, ip, passed, outcome, duplicate) ==
  [outcome |-> outcome,
   correct |-> CorrectCredentials(email, password, mfaToken),
   fiveBefore |-> (email \in Watched /\ failLog[email].consec >= maxLoginAttempts),
   elapsed |-> (email \in Watched /\ failLog[email].consec > 0
                /\ now >= failLog[email].lastAt + lockoutDuration),
   originFiveBefore |-> (ip \in DOMAIN failLog /\ failLog[ip].consec >= maxLoginAttempts
                         /\ now < failLog[ip].lastAt + lockoutDuration),
   origin |-> (IF ip \in DOMAIN failLog THEN ip ELSE NoIp),
   passwordOnly |-> (/\ email \in DOMAIN users
                     /\ users[email].isActive /\ users[email].mfaEnabled
                     /\ BcryptCompare(password, users[email].passwordHash)
                     /\ mfaToken = NoToken),
   emailLocked |-> (CounterOf(email) >= maxLoginAttempts),
   originLocked |-> (ip # NoIp /\ CounterOf(ip) >= maxLoginAttempts),
   readUser |-> (passed # "TooManyAttempts"),
   comparedPassword |-> (passed # "TooManyAttempts"
                         /\ email \in DOMAIN users /\ users[email].isActive),
   duplicate |-> (passed = "passed" /\ duplicate)]

\* login(loginDto, ipAddress), one call from start to finish. The schema of the
\* refresh token table is not part of the sources: a token string that is
\* already stored is either refused (unique column) or stored a second time.
Login(email, password, mfaToken, ip) ==
  LET passed == Outcome(email, password, mfaToken, ip)
      token == SignRefresh(email, now)
      duplicate == \E r \in refreshTokens : r.token = token
      outcomes == IF passed # "passed" THEN {passed}
                  ELSE IF duplicate THEN {"StoreError", "ok"} ELSE {"ok"}
  IN
  /\ passed = "passed" => nextTokenId <= MaxTokenId
  /\ \E outcome \in outcomes :
       /\ lastLogin' = CallRecord(email, password, mfaToken, ip, passed,
                                  IF outcome = "ok"
                                  THEN AfterAudit(LogAuditEvent(auditLog, email, "LOGIN", auditDown), "ok")
                                  ELSE outcome,
                                  duplicate)
       /\ failLog' = [e \in DOMAIN failLog |->
                        IF e \in {email, ip} THEN Counted(failLog[e], outcome) ELSE failLog[e]]
       /\ attempts' = IF outcome \in {"InvalidCredentials", "InvalidMfaToken"}
                      THEN IncrementFailedAttempts(email, ip)
                      ELSE IF outcome \in {"ok", "StoreError"}
                      THEN ResetFailedAttempts(email, ip)
                      ELSE attempts
       /\ IF outcome = "ok"
          THEN /\ refreshTokens' =
                    Cleanup(refreshTokens \cup {NewRecord(nextTokenId, email, token, now)},
                            email, now)
               /\ nextTokenId' = nextTokenId + 1
               /\ issued' = issued \cup {token}
               /\ users' = [users EXCEPT ![email].lastLoginAt = now]
               /\ auditLog' = LogAuditEvent(auditLog, email, "LOGIN", auditDown).log
          ELSE UNCHANGED <<refreshTokens, nextTokenId, issued, users, auditLog>>
  /\ UNCHANGED outsideLogin

----------------------------------------------------------------------------
(* AuthService.setupMfa / enableMfa / disableMfa *)

\* The base32 secrets speakeasy.generateSecret can return. They are random: which
\* one a call gets is not decided by the program.
Secrets == {"s1", "s2"}

NoHanded == "none"

NoMfaCall ==
  [op |-> "none", userId |-> "alice", outcome |-> "none", setupCode |-> FALSE,
   passwordOk |-> FALSE, codeOk |-> FALSE, flip |-> FALSE]

\* The record of one more call: flip changes with every call.
MfaCall(op, userId) ==
  [NoMfaCall EXCEPT !.op = op, !.userId = userId, !.flip = ~lastMfa.flip]

MfaInit ==
  /\ handed = [u \in Principals |-> NoHanded]
  /\ lastMfa = NoMfaCall

\* The codes a client can send: none, the current code of a secret, an aged one.
MfaCodes ==
  {NoToken} \cup {Totp(x, now) : x \in Secrets}
            \cup {Totp(x, now - (TotpWindow + 1) * TotpStep) : x \in Secrets}

\* The user the calls of one run are made for.
Caller == Watched \cap Principals

\* setupMfa(userId): generates a secret and returns it; nothing is stored.
SetupMfa(userId) ==
  /\ IF users[userId].mfaEnabled
     THEN /\ lastMfa' = [MfaCall("setupMfa", userId) EXCEPT !.outcome = "BadRequest"]
          /\ UNCHANGED handed
     ELSE \E secret \in Secrets :
            /\ handed' = [handed EXCEPT ![userId] = secret]
            /\ lastMfa' = [MfaCall("setupMfa", userId) EXCEPT !.outcome = "ok"]
  /\ UNCHANGED <<users, auditLog>>
  /\ UNCHANGED outsideMfa

\* enableMfa setting the flag and leaving the secret for later.
EnableMfaFlagOnly(userId, token) ==
  LET call == MfaCall("enableMfa", userId) IN
  /\ Len(auditLog) < MaxAudits
  /\ IF users[userId].mfaEnabled
     THEN /\ lastMfa' = [call EXCEPT !.outcome = "BadRequest"]
          /\ UNCHANGED <<users, auditLog>>
     ELSE \E secret \in Secrets :
            IF TotpVerify(secret, token)
            THEN /\ users' = [users EXCEPT ![userId].mfaEnabled = TRUE]
                 /\ auditLog' = LogAuditEvent(auditLog, userId, "UPDATE", auditDown).log
                 /\ lastMfa' = [call EXCEPT !.outcome = "ok", !.codeOk = TRUE]
            ELSE /\ lastMfa' = [call EXCEPT !.outcome = "InvalidMfaToken"]
                 /\ UNCHANGED <<users, auditLog>>
  /\ UNCHANGED handed
  /\ UNCHANGED outsideMfa

\* enableMfa(userId, {token}): generates a secret of its own, verifies the token
\* against it, stores it encrypted and sets the flag.
EnableMfa(userId, token) ==
  LET call == [MfaCall("enableMfa", userId) EXCEPT
                 !.setupCode = (handed[userId] # NoHanded /\ token = Totp(handed[userId], now))]
  IN
  /\ Len(auditLog) < MaxAudits
  /\ IF users[userId].mfaEnabled
     THEN /\ lastMfa' = [call EXCEPT !.outcome = "BadRequest"]
          /\ UNCHANGED <<users, auditLog>>
     ELSE \E secret \in Secrets :
            IF TotpVerify(secret, token)
            THEN /\ users' = [users EXCEPT ![userId].mfaEnabled = TRUE,
                                           ![userId].mfaSecret = EncryptSecret(secret)]
                 /\ auditLog' = LogAuditEvent(auditLog, userId, "UPDATE", auditDown).log
                 /\ lastMfa' = [call EXCEPT
                                  !.outcome = AfterAudit(LogAuditEvent(auditLog, userId, "UPDATE",
                                                                       auditDown), "ok"),
                                  !.codeOk = TRUE]
            ELSE /\ lastMfa' = [call EXCEPT !.outcome = "InvalidMfaToken"]
                 /\ UNCHANGED <<users, auditLog>>
  /\ UNCHANGED handed
  /\ UNCHANGED outsideMfa

DisableMfaPasswordOnly(userId, password, token) ==
  LET user == users[userId]
      call == [MfaCall("disableMfa", userId) EXCEPT
                 !.passwordOk = (user.passwordHash = BcryptHash(password)),
                 !.codeOk = (user.mfaEnabled /\ token.secret = DecryptSecret(user.mfaSecret)
                             /\ token.step - (now \div TotpStep) \in (0 - TotpWindow) .. TotpWindow)]
      outcome == IF ~user.mfaEnabled THEN "BadRequest"
                 ELSE IF ~BcryptCompare(password, user.passwordHash) THEN "InvalidPassword"
                 ELSE "ok"
  IN
  /\ Len(auditLog) < MaxAudits
  /\ lastMfa' = [call EXCEPT
                   !.outcome = IF outcome = "ok"
                               THEN AfterAudit(LogAuditEvent(auditLog, userId, "UPDATE", auditDown),
                                               "ok")
                               ELSE outcome]
  /\ IF outcome = "ok"
     THEN /\ users' = [users EXCEPT ![userId].mfaEnabled = FALSE, ![userId].mfaSecret = NoSecret]
          /\ auditLog' = LogAuditEvent(auditLog, userId, "UPDATE", auditDown).log
     ELSE UNCHANGED <<users, auditLog>>
  /\ UNCHANGED handed
  /\ UNCHANGED outsideMfa

\* disableMfa(userId, {password, token})
DisableMfa(userId, password, token) ==
  LET user == users[userId]
      call == [MfaCall("disableMfa", userId) EXCEPT
                 !.passwordOk = (user.passwordHash = BcryptHash(password)),
                 !.codeOk = (user.mfaEnabled /\ token.secret = DecryptSecret(user.mfaSecret)
                             /\ token.step - (now \div TotpStep) \in (0 - TotpWindow) .. TotpWindow)]
      outcome == IF ~user.mfaEnabled THEN "BadRequest"
                 ELSE IF ~BcryptCompare(password, user.passwordHash) THEN "InvalidPassword"
                 ELSE IF ~TotpVerify(DecryptSecret(user.mfaSecret), token) THEN "InvalidMfaToken"
                 ELSE "ok"
  IN
  /\ Len(auditLog) < MaxAudits
  /\ lastMfa' = [call EXCEPT
                   !.outcome = IF outcome = "ok"
                               THEN AfterAudit(LogAuditEvent(auditLog, userId, "UPDATE", auditDown),
                                               "ok")
                               ELSE outcome]
  /\ IF outcome = "ok"
     THEN /\ users' = [users EXCEPT ![userId].mfaEnabled = FALSE, ![userId].mfaSecret = NoSecret]
          /\ auditLog' = LogAuditEvent(auditLog, userId, "UPDATE", auditDown).log
     ELSE UNCHANGED <<users, auditLog>>
  /\ UNCHANGED handed
  /\ UNCHANGED outsideMfa

\* A login with the right password and the current code of the secret the
\* client was handed by setupMfa.
LoginWithHanded ==
  \E userId \in Caller :
    /\ handed[userId] # NoHanded
    /\ Login(userId, "pw1", Totp(handed[userId], now), NoIp)

MfaCalls ==
  \/ \E userId \in Caller : SetupMfa(userId)
  \/ \E userId \in Caller, token \in MfaCodes : EnableMfa(userId, token)
  \/ \E userId \in Caller, password \in Passwords, token \in MfaCodes :
       DisableMfa(userId, password, token)

----------------------------------------------------------------------------
(* AuthService.changePassword / logout *)

NewPassword == "pw2"

\* logout called without a refresh token.
NoRefreshToken == [sub |-> "none", iat |-> 0, exp |-> 0, sig |-> "none"]

IdleChange ==
  [pc |-> "idle", userId |-> "alice", newHash |-> BcryptHash("pw1"), outcome |-> "none",
   before |-> {}, seen |-> {}]

NoLogout ==
  [userId |-> "alice", token |-> NoRefreshToken, storeFailed |-> FALSE,
   before |-> {}, seen |-> {}, flip |-> FALSE]

SessionInit ==
  /\ chg = IdleChange
  /\ lo = NoLogout
  /\ auditDown = FALSE
  /\ rb = NoRoleCall

\* The refresh token strings handed out for a principal so far.
IssuedTo(userId) == {token \in issued : token.sub = userId}

\* The refreshToken calls that have started.
Started == {t \in RefreshCallIds : rt[t].pc # "idle"}

\* refreshToken.updateMany({where: {userId}, data: {isRevoked: true}})
RevokeAll(records, userId) ==
  {IF r.userId = userId THEN [r EXCEPT !.isRevoked = TRUE] ELSE r : r \in records}

\* refreshToken.updateMany({where: {userId, token}, data: {isRevoked: true}})
RevokeOne(records, userId, token) ==
  {IF r.userId = userId /\ r.token = token THEN [r EXCEPT !.isRevoked = TRUE] ELSE r :
     r \in records}

\* The records refreshToken.findFirst accepts.
Usable(r) == ~r.isRevoked /\ r.expiresAt > now

\* changePassword: user.findUnique, bcrypt.compare on the hash read, bcrypt.hash.
CpwFind(userId, currentPassword, newPassword) ==
  /\ chg.pc = "idle"
  /\ chg.outcome # "ok"
  /\ LET call == [IdleChange EXCEPT !.userId = userId]
     IN  chg' = IF userId \notin DOMAIN users
               THEN [call EXCEPT !.outcome = "NotFound"]
               ELSE IF ~BcryptCompare(currentPassword, users[userId].passwordHash)
               THEN [call EXCEPT !.outcome = "Unauthorized"]
               ELSE [call EXCEPT !.pc = "update", !.newHash = BcryptHash(newPassword)]
  /\ UNCHANGED <<users, refreshTokens, auditLog, lo>>
  /\ UNCHANGED outsideSession

\* user.update({where: {id}, data: {passwordHash}})
CpwUpdate ==
  /\ chg.pc = "update"
  /\ users' = [users EXCEPT ![chg.userId].passwordHash = chg.newHash]
  /\ chg' = [chg EXCEPT !.pc = "revoke"]
  /\ UNCHANGED <<refreshTokens, auditLog, lo>>
  /\ UNCHANGED outsideSession

\* refreshToken.updateMany({where: {userId}, data: {isRevoked: true}})
CpwRevoke ==
  /\ chg.pc = "revoke"
  /\ refreshTokens' = RevokeAll(refreshTokens, chg.userId)
  /\ chg' = [chg EXCEPT !.pc = "audit"]
  /\ UNCHANGED <<users, auditLog, lo>>
  /\ UNCHANGED outsideSession

\* logAuditEvent(userId, 'UPDATE', ...), then changePassword returns.
CpwAudit ==
  /\ chg.pc = "audit"
  /\ auditLog' = LogAuditEvent(auditLog, chg.userId, "UPDATE", auditDown).log
  /\ chg' = [chg EXCEPT !.pc = "idle",
                        !.outcome = AfterAudit(LogAuditEvent(auditLog, chg.userId, "UPDATE",
                                                             auditDown), "ok"),
                        !.before = IssuedTo(chg.userId), !.seen = Started]
  /\ UNCHANGED <<users, refreshTokens, lo>>
  /\ UNCHANGED outsideSession

Changing == chg.pc # "idle"

Changed == chg.pc = "idle" /\ chg.outcome = "ok"

\* logout(userId, refreshToken?), one call from start to finish. Everything is
\* inside one try/catch that only logs: when updateMany throws, nothing is
\* revoked, no audit record is written and the call still returns normally.
Logout(userId, token, storeFails) ==
  /\ Len(auditLog) < MaxAudits
  /\ refreshTokens' = IF storeFails THEN refreshTokens
                      ELSE IF token # NoRefreshToken
                      THEN RevokeOne(refreshTokens, userId, token)
                      ELSE RevokeAll(refreshTokens, userId)
  /\ auditLog' = IF storeFails THEN auditLog
                 ELSE LogAuditEvent(auditLog, userId, "LOGOUT", auditDown).log
  /\ lo' = [userId |-> userId, token |-> token, storeFailed |-> storeFails,
            before |-> IssuedTo(userId), seen |-> Started, flip |-> ~lo.flip]
  /\ UNCHANGED <<users, chg>>
  /\ UNCHANGED outsideSession

\* No refreshToken call is between two of its steps.
Quiet == \A t \in RefreshCallIds : ~InFlight(t)

\* The principals whose sessions are followed, and one more.
SessionUsers == Caller \cup {"carol"}

\* A login of a followed principal with the password that is the right one at
\* the time, the old or the new one.
SessionLogin ==
  \E email \in Caller, password \in {"pw1", NewPassword} :
    /\ BcryptCompare(password, users[email].passwordHash)
    /\ Login(email, password, NoToken, NoIp)

ChangeCalls ==
  \/ \E userId \in Caller \cup {Stranger}, currentPassword \in Passwords :
       CpwFind(userId, currentPassword, NewPassword)
  \/ CpwUpdate
  \/ CpwRevoke
  \/ CpwAudit

LogoutCalls(F) ==
  \E userId \in SessionUsers, token \in issued \cup {NoRefreshToken}, f \in F :
    Logout(userId, token, f)

----------------------------------------------------------------------------
(* AuthService.register *)

RegisterCallIds == 1 .. MaxRegisterCalls

\* registerDto.username left out.
NoUsername == ""

\* The usernames of the users that exist from the start.
InitialUsername(u) == IF u = "alice" THEN "al" ELSE NoUsername

InitialIds == [u \in Principals |-> IF u = "alice" THEN 1 ELSE IF u = "bob" THEN 2 ELSE 3]

\* The emails and usernames registrations ask for: one of each is in use.
NewEmails == {"alice", "dave", "erin"}

NewUsernames == {NoUsername, "al", "dv"}

IdleRegister ==
  [pc |-> "idle", email |-> "dave", username |-> NoUsername, result |-> "none",
   taken |-> FALSE, alone |-> TRUE]

RegisterInit ==
  /\ accounts = {[id |-> InitialIds[u], email |-> u, username |-> InitialUsername(u)] :
                    u \in Principals}
  /\ rg = [c \in RegisterCallIds |-> IdleRegister]

\* user.findFirst({where: {OR: [{email}, {username}]}}), the username only when
\* one is given.
FindExisting(email, username) ==
  {a \in accounts : a.email = email \/ (username # NoUsername /\ a.username = username)}

Registering(c) == rg[c].pc \notin {"idle", "done"}

\* register: findFirst and the two comparisons; bcrypt.hash.
RgFind(c, email, username) ==
  /\ rg[c].pc = "idle"
  /\ \A d \in RegisterCallIds : d < c => rg[d].pc # "idle"
  /\ LET found == FindExisting(email, username)
         others == {d \in RegisterCallIds : Registering(d)}
         started == [rg[c] EXCEPT !.email = email, !.username = username,
                                  !.taken = (found # {}), !.alone = (others = {})]
         mark == [d \in RegisterCallIds |->
                    IF d \in others THEN [rg[d] EXCEPT !.alone = FALSE] ELSE rg[d]]
     IN  IF found = {}
         THEN rg' = [mark EXCEPT ![c] = [started EXCEPT !.pc = "create"]]
         ELSE \E a \in found :
                rg' = [mark EXCEPT ![c] =
                         IF a.email = email \/ a.username = username
                         THEN [started EXCEPT !.pc = "done", !.result = "Conflict"]
                         ELSE [started EXCEPT !.pc = "create"]]
  /\ UNCHANGED <<accounts, refreshTokens, nextTokenId, issued, auditLog>>
  /\ UNCHANGED outsideRegister

\* user.create inside try/catch: whatever it throws becomes BadRequest. The
\* email column is unique (login reads it with findUnique); the schema is not
\* part of the sources, so a username in use is either refused or stored again.
RgCreate(c) ==
  /\ rg[c].pc = "create"
  /\ LET sameEmail == \E a \in accounts : a.email = rg[c].email
         sameUsername == /\ rg[c].username # NoUsername
                         /\ \E a \in accounts : a.username = rg[c].username
     IN  \/ /\ sameEmail \/ sameUsername
            /\ rg' = [rg EXCEPT ![c].pc = "done", ![c].result = "BadRequest"]
            /\ UNCHANGED accounts
         \/ /\ ~sameEmail
            /\ accounts' = accounts \cup
                             {[id |-> Cardinality(accounts) + 1, email |-> rg[c].email,
                               username |-> rg[c].username]}
            /\ rg' = [rg EXCEPT ![c].pc = "tokens"]
  /\ UNCHANGED <<refreshTokens, nextTokenId, issued, auditLog>>
  /\ UNCHANGED outsideRegister

\* generateTokens, updateLastLogin and logAuditEvent, then register returns the
\* tokens; a failing refreshToken.create becomes BadRequest as well.
RgTokens(c) ==
  /\ rg[c].pc = "tokens"
  /\ LET token == SignRefresh(rg[c].email, now)
         duplicate == \E r \in refreshTokens : r.token = token
     IN  \E result \in (IF duplicate THEN {"BadRequest", "ok"} ELSE {"ok"}) :
           /\ rg' = [rg EXCEPT ![c].pc = "done", ![c].result = result]
           /\ IF result = "ok"
              THEN /\ refreshTokens' =
                        Cleanup(refreshTokens \cup
                                  {NewRecord(nextTokenId, rg[c].email, token, now)},
                                rg[c].email, now)
                   /\ nextTokenId' = nextTokenId + 1
                   /\ issued' = issued \cup {token}
                   /\ auditLog' = LogAuditEvent(auditLog, rg[c].email, "REGISTER", auditDown).log
              ELSE UNCHANGED <<refreshTokens, nextTokenId, issued, auditLog>>
  /\ UNCHANGED accounts
  /\ UNCHANGED outsideRegister

RegisterCalls ==
  \/ \E c \in RegisterCallIds, email \in NewEmails, username \in NewUsernames :
       RgFind(c, email, username)
  \/ \E c \in RegisterCallIds : RgCreate(c)
  \/ \E c \in RegisterCallIds : RgTokens(c)

----------------------------------------------------------------------------
(* EncryptionService.generateApiKey / verifyApiKey *)

\* The values crypto.randomBytes(32) can return, as their base64url text.
RandomTexts == {"rnd1", "rnd2", "rnd3"}

\* A string, by what the two functions look at: its text and the number of bytes
\* Buffer.from gives it.
Str(text, bytes) == [text |-> text, bytes |-> bytes]

\* 'b3_' + randomBytes(32).toString('base64url'): 3 + 43 characters.
ApiKeyText(random) == Str(<<"b3_", random>>, 46)

\* crypto.createHash('sha256').update(key).digest('hex'): 64 lower-case hex
\* digits, different for different keys.
Sha256Hex(key) == Str(<<"sha256", key.text>>, 64)

\* The keys verifyApiKey is called with: generated ones, the empty string and a
\* string of another shape.
KeyStrings == {ApiKeyText(x) : x \in RandomTexts} \cup {Str(<<"empty">>, 0), Str(<<"b3_short">>, 8)}

\* The hashes verifyApiKey is called with: digests of keys, the upper-case
\* spelling of a digest, a 64-character string that is no digest, the empty
\* string, a truncated digest and a digest with a trailing newline.
HashStrings ==
  {Sha256Hex(k) : k \in KeyStrings}
    \cup {Str(<<"upper", Sha256Hex(ApiKeyText("rnd1")).text>>, 64),
          Str(<<"z64">>, 64),
          Str(<<"empty">>, 0),
          Str(<<"first32", Sha256Hex(ApiKeyText("rnd1")).text>>, 32),
          Str(<<"newline", Sha256Hex(ApiKeyText("rnd1")).text>>, 65)}

\* crypto.timingSafeEqual(a, b): throws RangeError when the byte lengths differ.
TimingSafeEqual(a, b) ==
  IF a.bytes # b.bytes THEN "RangeError"
  ELSE IF a = b THEN "true" ELSE "false"

GenerateApiKeyResult(random) ==
  [key |-> ApiKeyText(random), hash |-> Sha256Hex(ApiKeyText(random))]

VerifyApiKeyResult(key, hash) == TimingSafeEqual(hash, Sha256Hex(key))

NoKeyCall ==
  [op |-> "none", generated |-> {}, key |-> Str(<<"empty">>, 0), hash |-> Str(<<"empty">>, 0), result |-> "none"]

KeyInit == ak = NoKeyCall

GenerateApiKey(random) ==
  /\ ak' = [ak EXCEPT !.op = "generateApiKey",
                      !.generated = @ \cup {GenerateApiKeyResult(random)}]
  /\ UNCHANGED outsideKey

VerifyApiKey(key, hash) ==
  /\ ak' = [ak EXCEPT !.op = "verifyApiKey", !.key = key, !.hash = hash,
                      !.result = VerifyApiKeyResult(key, hash)]
  /\ UNCHANGED outsideKey

----------------------------------------------------------------------------
(* AuthService.login, a failing call step by step *)

FailCallIds == 1 .. MaxFailCalls

IdleFail == [pc |-> "idle", email |-> UnknownEmail]

CallsInit ==
  /\ fl = [c \in FailCallIds |-> IdleFail]
  /\ MfaInit
  /\ SessionInit
  /\ RegisterInit
  /\ up = [a \in AssignCallIds |-> IdleAssign]
  /\ dr = IdleDelete
  /\ KeyInit

\* A login with a wrong password and no origin: checkRateLimit, findUnique and
\* bcrypt.compare. It goes on to incrementFailedAttempts unless it is locked out.
FlStart(c, email) ==
  /\ fl[c].pc = "idle"
  /\ \A d \in FailCallIds : d < c => fl[d].pc # "idle"
  /\ fl' = [fl EXCEPT ![c] =
              [pc |-> IF Outcome(email, "bad", NoToken, NoIp) = "TooManyAttempts"
                      THEN "done" ELSE "incr",
               email |-> email]]
  /\ UNCHANGED <<failLog, attempts>>
  /\ UNCHANGED outsideFail

\* incrementFailedAttempts: await redisService.incr(key). The failure is on
\* record from here on.
FlIncr(c) ==
  /\ fl[c].pc = "incr"
  /\ attempts' = [attempts EXCEPT ![AttemptKey(fl[c].email)] = RedisIncr(@)]
  /\ failLog' = [e \in DOMAIN failLog |->
                   IF e = fl[c].email THEN Counted(failLog[e], "InvalidCredentials")
                   ELSE failLog[e]]
  /\ fl' = [fl EXCEPT ![c].pc = "expire"]
  /\ UNCHANGED outsideFail

\* incrementFailedAttempts: await redisService.expire(key, lockoutDuration).
FlExpire(c) ==
  /\ fl[c].pc = "expire"
  /\ attempts' = [attempts EXCEPT ![AttemptKey(fl[c].email)] = RedisExpire(@, lockoutDuration)]
  /\ fl' = [fl EXCEPT ![c].pc = "done"]
  /\ UNCHANGED failLog
  /\ UNCHANGED outsideFail

FailCalls ==
  \/ \E c \in FailCallIds, email \in Emails : FlStart(c, email)
  \/ \E c \in FailCallIds : FlIncr(c)
  \/ \E c \in FailCallIds : FlExpire(c)

\* A login with the right password and code and no origin, start to finish: a
\* success that resets the counter, or a counted failure when the user is
\* deactivated.
CorrectLogin == \E email \in Watched : Login(email, "pw1", Totp("s1", now), NoIp)

LoginCalls ==
  \E email \in Emails, password \in Passwords, mfaToken \in MfaTokens,
     ip \in Origins \cup {NoIp} :
    Login(email, password, mfaToken, ip)

----------------------------------------------------------------------------
(* Specifications *)

\* checkPermission calls and a role update interleaved, cache and store working.
RbacNext == RbacCalls({FALSE}) \/ RbacUpdate

\* checkPermission calls with the cache or the store failing at any step.
RbacFaultNext == RbacCalls(BOOLEAN)

\* refreshToken calls interleaved, the clock advancing by a second or by the
\* refresh-token lifetime.
TokenNext ==
  \/ TokenCalls({FALSE})
  \/ \E d \in {1, refreshTokenExpiry} : Tick(d, MaxTicks)

\* refreshToken calls with signing or the store failing at any step.
TokenFaultNext ==
  \/ TokenCalls(BOOLEAN)
  \/ \E d \in {1, refreshTokenExpiry} : Tick(d, MaxTicks)

\* login calls one after another, with time passing between them.
LoginNext == LoginCalls \/ Tick(TickSeconds, MaxLoginTicks)

Init == RbacInit /\ ClockInit /\ CallsInit /\ TokenInit /\ LoginInit

AuthInit == RbacIdle /\ ClockInit /\ CallsInit /\ TokenInit /\ LoginIdle

LoginAuthInit == RbacIdle /\ ClockInit /\ CallsInit /\ TokenInit /\ LoginInit

SpecRbac == Init /\ [][RbacNext]_vars

SpecRbacFault == Init /\ [][RbacFaultNext]_vars

\* Memberships are assigned and removed between and during checkPermission calls.
MemberCalls ==
  \/ \E u \in UserIds, o \in OrgIds, r \in RoleIds : AssignRole(u, o, r)
  \/ \E u \in UserIds, o \in OrgIds : RemoveFromOrganization(u, o)

MemberNext == RbacCalls({FALSE}) \/ MemberCalls

\* r1 grants READ on DESIGN and is held by u1; u2 is no member.
MemberInit ==
  /\ RbacStart({{Perm("READ", "DESIGN")}}, {NoMember})
  /\ ClockInit /\ CallsInit /\ TokenInit /\ LoginIdle

SpecMember == MemberInit /\ [][MemberNext]_vars

\* Another tenant, whose members are not followed.
OtherOrg == "o2"

\* r1 is a custom role of o1 that grants READ on DESIGN and is held by u1, whose
\* permissions a checkPermission call has just cached; r2 is the given role.
RolesStart(second) ==
  /\ roles = [r \in RoleIds |->
               IF r = "r1"
               THEN [exists |-> TRUE, orgId |-> "o1", isSystem |-> FALSE,
                     permissions |-> {Perm("READ", "DESIGN")}]
               ELSE second]
  /\ members = [k \in UserIds \X OrgIds |->
                 IF k[1] = "u1" THEN Member("r1", TRUE) ELSE NoMember]
  /\ permCache = [k \in UserIds \X (OrgIds \cup {NoOrg}) |->
                   IF k = CacheKey("u1", "o1")
                   THEN [present |-> TRUE, value |-> JsonStringify({Perm("READ", "DESIGN")}),
                         expireAt |-> permissionCacheExpiry]
                   ELSE NoEntry]
  /\ cp = [c \in CallIds |-> IdleCall]
  /\ ur = IdleUpdate
  /\ storeEpoch = 0
  /\ ClockInit /\ CallsInit /\ TokenInit /\ LoginIdle

\* r2 is a custom role of the other tenant.
AssignInit ==
  RolesStart([exists |-> TRUE, orgId |-> OtherOrg, isSystem |-> FALSE,
              permissions |-> {Perm("ADMIN", "ORGANIZATION")}])

\* r2 is a system role of o1.
RolesInit ==
  RolesStart([exists |-> TRUE, orgId |-> "o1", isSystem |-> TRUE,
              permissions |-> {Perm("ADMIN", "ORGANIZATION")}])

NoRoleRecord == [exists |-> FALSE, orgId |-> NoOrg, isSystem |-> FALSE, permissions |-> {}]

\* A tenant before its default roles are there: u1 holds the custom role r1.
SeedInit ==
  /\ roles = [r \in RoleIds \cup {SeededRoleIds[i] : i \in DOMAIN SeededRoleIds} |->
               IF r = "r1"
               THEN [exists |-> TRUE, orgId |-> "o1", isSystem |-> FALSE,
                     permissions |-> {Perm("READ", "DESIGN")}]
               ELSE NoRoleRecord]
  /\ members = [k \in UserIds \X OrgIds |->
                 IF k[1] = "u1" THEN Member("r1", TRUE) ELSE NoMember]
  /\ permCache = [k \in UserIds \X (OrgIds \cup {NoOrg}) |-> NoEntry]
  /\ cp = [c \in CallIds |-> IdleCall]
  /\ ur = IdleUpdate
  /\ storeEpoch = 0
  /\ ClockInit /\ CallsInit /\ TokenInit /\ LoginIdle

\* The default roles are created, with any of the creates failing; u1 is given
\* seeded roles and its permissions are checked.
SeedNext ==
  \/ \E o \in OrgIds, n \in 0 .. Len(DefaultRoles) : InitializeDefaultRoles(o, n)
  \/ \E o \in OrgIds, i \in DOMAIN SeededRoleIds : AssignRole("u1", o, SeededRoleIds[i])
  \/ \E c \in CallIds, o \in OrgIds : CpGet(c, "u1", o, FALSE)
  \/ \E c \in CallIds : CpFind(c, FALSE)
  \/ \E c \in CallIds : CpSetex(c, FALSE)

SpecSeed == SeedInit /\ [][SeedNext]_vars

\* One updateRole call step by step, deleteRole calls, and u1 reassigned or
\* removed, against roles of the tenant and of the other tenant.
RolesNext ==
  \/ \E r \in RoleIds, o \in OrgIds \cup {OtherOrg} : UrFind(r, o, TRUE, {Perm("DELETE", "DESIGN")})
  \/ UrUpdate
  \/ UrFindMany
  \/ UrDel
  \/ UrReturn
  \/ \E r \in RoleIds, o \in OrgIds \cup {OtherOrg} : DeleteRole(r, o)
  \/ \E o \in OrgIds, r \in RoleIds : AssignRole("u1", o, r)
  \/ \E o \in OrgIds : RemoveFromOrganization("u1", o)

SpecRoles == RolesInit /\ [][RolesNext]_vars

\* Memberships are assigned and removed and roles deleted, one call after another.
AssignNext == MemberCalls \/ \E r \in RoleIds, o \in OrgIds : DeleteRole(r, o)

SpecAssign == AssignInit /\ [][AssignNext]_vars

\* assignRole calls at the same time, and removals between their steps.
UpsertNext ==
  \/ AssignCalls
  \/ \E u \in UserIds, o \in OrgIds : RemoveFromOrganization(u, o)

\* u1 holds r1; u2 is no member or a removed member.
UpsertInit ==
  /\ RbacStart({{Perm("READ", "DESIGN")}}, {NoMember, Member("r1", FALSE)})
  /\ ClockInit /\ CallsInit /\ TokenInit /\ LoginIdle

SpecUpsert == UpsertInit /\ [][UpsertNext]_vars

\* checkPermission calls around one updateRole call, with the cache TTL running out.
RbacClockNext == RbacNext \/ Tick(permissionCacheExpiry, MaxTicks)

\* r1 grants nothing or READ on DESIGN before the update.
RbacClockInit ==
  /\ RbacStart({{}, {Perm("READ", "DESIGN")}}, {NoMember})
  /\ ClockInit /\ CallsInit /\ TokenInit /\ LoginIdle

SpecRbacClock == RbacClockInit /\ [][RbacClockNext]_vars

SpecToken == AuthInit /\ [][TokenNext]_vars

SpecTokenFault == AuthInit /\ [][TokenFaultNext]_vars

SpecLogin == LoginAuthInit /\ [][LoginNext]_vars

\* login calls from two origins, one after another, within one lockout window;
\* each carries a current MFA code and the right or a wrong password.
LockoutNext ==
  \E email \in Emails, password \in Passwords, ip \in Origins \cup {NoIp} :
    Login(email, password, Totp("s1", now), ip)

\* failing logins step by step, with successful logins and time passing in
\* between.
RecordNext == FailCalls \/ CorrectLogin \/ Tick(TickSeconds, MaxLoginTicks)

SpecRecord == LoginAuthInit /\ [][RecordNext]_vars

LockoutAuthInit == RbacIdle /\ ClockInit /\ CallsInit /\ TokenInit /\ LockoutInit

SpecLockout == LockoutAuthInit /\ [][LockoutNext]_vars

\* login calls for the user with MFA and for an unknown email, from one origin
\* or none, within one lockout window.
MfaLoginNext == LoginCalls

MfaLoginInit ==
  RbacIdle /\ ClockInit /\ CallsInit /\ TokenInit /\ LoginStart("bob", {"ip1"}, {"ip1"})

SpecMfaLogin == MfaLoginInit /\ [][MfaLoginNext]_vars

\* The MFA operations and logins one after another, with time passing.
MfaNext == MfaCalls \/ LoginWithHanded \/ Tick(TotpStep, MaxTicks)

SpecMfa == LoginAuthInit /\ [][MfaNext]_vars

\* The sessions of one principal: logins, refreshes and a password change, each
\* call running from start to finish before the next one starts.
SessionInit0 == RbacIdle /\ ClockInit /\ CallsInit /\ TokenInit /\ LoginStart("alice", {"ip1"}, {})

\* refreshToken calls one at a time, none while a password change is running.
SequentialRefresh ==
  \/ Quiet /\ ~Changing /\ \E t \in RefreshCallIds, token \in issued : RtFind(t, token)
  \/ \E t \in RefreshCallIds : RtRevoke(t) \/ RtSign(t, FALSE) \/ RtCreate(t, FALSE) \/ RtCleanup(t, FALSE)

SessionNext ==
  \/ Quiet /\ ChangeCalls
  \/ Quiet /\ ~Changing /\ SessionLogin
  \/ SequentialRefresh
  \/ Tick(1, MaxTicks)

SpecSession == SessionInit0 /\ [][SessionNext]_vars

\* Logins, refreshes and logouts of one principal, and logouts of another, each
\* call running from start to finish before the next one starts; the store may
\* fail under a logout.
LogoutNext ==
  \/ Quiet /\ LogoutCalls(BOOLEAN)
  \/ Quiet /\ SessionLogin
  \/ SequentialRefresh
  \/ Tick(1, MaxTicks)

SpecLogout == SessionInit0 /\ [][LogoutNext]_vars

\* A password change step by step, with refreshToken calls running at the same
\* time; nobody logs in.
ChangeNext == ChangeCalls \/ TokenCalls({FALSE}) \/ Tick(1, MaxTicks)

SpecChange == SessionInit0 /\ [][ChangeNext]_vars

\* The audit table goes down.
AuditStoreFails ==
  /\ ~auditDown
  /\ auditDown' = TRUE
  /\ UNCHANGED <<rbacVars, clockVars, tokenVars, loginVars, callVars, mfaVars, sessionVars, rb,
                 registerVars, upsertVars, keyVars>>

\* The audited operations of AuthService, one after another.
AuditedAuthCalls ==
  \/ SessionLogin
  \/ \E userId \in Caller : Logout(userId, NoRefreshToken, FALSE)
  \/ ChangeCalls
  \/ \E userId \in Caller : EnableMfa(userId, Totp("s1", now))
  \/ \E userId \in Caller, password \in {"pw1", NewPassword} :
       DisableMfa(userId, password, Totp("s1", now))

\* The audited operations of RbacService, one after another.
AuditedRoleCalls ==
  \/ RoleCalls
  \/ UrFind("r1", "o1", TRUE, {Perm("READ", "DESIGN")})
  \/ UrUpdate \/ UrFindMany \/ UrDel \/ UrReturn

AuthUntouched ==
  nextTokenId = 3 /\ lastMfa = NoMfaCall /\ lo = NoLogout /\ chg = IdleChange

RolesUntouched == rb = NoRoleCall /\ ur = IdleUpdate

\* The two services share nothing but the audit table: a run calls one of them.
AuditedCalls ==
  \/ RolesUntouched /\ AuditedAuthCalls
  \/ AuthUntouched /\ AuditedRoleCalls

AuditNext == AuditedCalls \/ AuditStoreFails

SpecAudit == SessionInit0 /\ [][AuditNext]_vars

\* register calls interleaved.
RegisterNext == RegisterCalls

SpecRegister == AuthInit /\ [][RegisterNext]_vars

\* No refreshToken and no register call is between two of its steps.
Resting == Quiet /\ \A c \in RegisterCallIds : rg[c].pc \in {"idle", "done"}

\* Token issuance by every route, one call at a time: logins and refreshes of one
\* principal, registrations, and the clock moving by a second or by the lifetime
\* of a refresh token.
IssueNext ==
  \/ Resting /\ SessionLogin
  \/ Resting /\ \E t \in RefreshCallIds, token \in {k \in issued : k.sub \in Principals} :
                  RtFind(t, token)
  \/ \E t \in RefreshCallIds :
       RtRevoke(t) \/ RtSign(t, FALSE) \/ RtCreate(t, FALSE) \/ RtCleanup(t, FALSE)
  \/ Resting /\ \E c \in RegisterCallIds, email \in {"alice", "dave"} :
                  RgFind(c, email, NoUsername)
  \/ \E c \in RegisterCallIds : RgCreate(c) \/ RgTokens(c)
  \/ \E d \in {1, refreshTokenExpiry} : Tick(d, MaxTicks)

SpecIssue == SessionInit0 /\ [][IssueNext]_vars

\* Every request comes from one origin: logins with a user's email and with an
\* unknown one, with the right and a wrong password; the failures of both emails
\* are followed.
OriginInit ==
  RbacIdle /\ ClockInit /\ CallsInit /\ TokenInit /\ LoginStart("alice", {"ip1"}, {UnknownEmail})

OriginNext ==
  \/ \E email \in Emails, password \in Passwords : Login(email, password, NoToken, "ip1")
  \/ Tick(TickSeconds, MaxLoginTicks)

SpecOrigin == OriginInit /\ [][OriginNext]_vars

\* Wrong-password logins for one email: whole calls one after another while no
\* call is in flight, and calls that run step by step at the same time.
GuessNext ==
  \/ /\ \A c \in FailCallIds : fl[c].pc \in {"idle", "done"}
     /\ \E email \in Emails : Login(email, "bad", NoToken, NoIp)
  \/ FailCalls
  \/ Tick(TickSeconds, MaxLoginTicks)

SpecGuess == SessionInit0 /\ [][GuessNext]_vars

\* r2 is a custom role of o1 that nobody holds.
RaceInit ==
  RolesStart([exists |-> TRUE, orgId |-> "o1", isSystem |-> FALSE,
              permissions |-> {Perm("DELETE", "DESIGN")}])

\* assignRole calls and one deleteRole call, all step by step at the same time.
RaceNext ==
  \/ AssignCalls
  \/ \E r \in RoleIds, o \in OrgIds : DrFind(r, o)
  \/ DrCount
  \/ DrDelete

SpecRace == RaceInit /\ [][RaceNext]_vars

Tenants == OrgIds \cup {OtherOrg}

\* Two tenants: r1 is a custom role of o1 held by u1 in o1, r2 a custom role of
\* the other tenant; u2 is a member of the other tenant or of none.
TenantInit ==
  /\ roles = [r \in RoleIds |->
               IF r = "r1"
               THEN [exists |-> TRUE, orgId |-> "o1", isSystem |-> FALSE,
                     permissions |-> {Perm("READ", "DESIGN")}]
               ELSE [exists |-> TRUE, orgId |-> OtherOrg, isSystem |-> FALSE,
                     permissions |-> {Perm("ADMIN", "ORGANIZATION")}]]
  /\ \E m2 \in {NoMember, Member("r2", TRUE)} :
       members = [k \in UserIds \X Tenants |->
                   IF k = <<"u1", "o1">> THEN Member("r1", TRUE)
                   ELSE IF k = <<"u2", OtherOrg>> THEN m2
                   ELSE NoMember]
  /\ permCache = [k \in UserIds \X (Tenants \cup {NoOrg}) |-> NoEntry]
  /\ cp = [c \in CallIds |-> IdleCall]
  /\ ur = IdleUpdate
  /\ storeEpoch = 0
  /\ ClockInit /\ CallsInit /\ TokenInit /\ LoginIdle

\* No checkPermission or updateRole call is under way.
Settled ==
  /\ \A c \in CallIds : cp[c].pc \in {"idle", "done"}
  /\ ur.pc \in {"idle", "done"}

\* No assignRole, removeFromOrganization or deleteRole call was made so far.
NoRoleCallYet == rb.op = "none"

\* What two tenants do, one call after another: u1's permissions are checked
\* in either tenant and without a tenant id, around one updateRole call and one
\* assignRole, removeFromOrganization or deleteRole call in either tenant.
TenantNext ==
  \/ Settled /\ \E c \in CallIds, o \in Tenants \cup {NoOrg} : CpGet(c, "u1", o, FALSE)
  \/ \E c \in CallIds : CpFind(c, FALSE)
  \/ \E c \in CallIds : CpSetex(c, FALSE)
  \/ Settled /\ NoRoleCallYet /\ \E o \in Tenants, r \in RoleIds : AssignRole("u1", o, r)
  \/ Settled /\ NoRoleCallYet /\ \E o \in Tenants : RemoveFromOrganization("u1", o)
  \/ Settled /\ NoRoleCallYet /\ \E r \in RoleIds, o \in Tenants : DeleteRole(r, o)
  \/ Settled /\ \E r \in RoleIds, o \in Tenants : UrFind(r, o, TRUE, {Perm("DELETE", "DESIGN")})
  \/ UrUpdate
  \/ UrFindMany
  \/ UrDel
  \/ UrReturn

SpecTenant == TenantInit /\ [][TenantNext]_vars

\* API keys are generated and verified.
KeyNext ==
  \/ \E random \in RandomTexts : GenerateApiKey(random)
  \/ \E key \in KeyStrings, hash \in HashStrings : VerifyApiKey(key, hash)

SpecApiKey == AuthInit /\ [][KeyNext]_vars

\* Everything the services can do.
Next ==
  \/ RbacNext \/ RbacFaultNext \/ TokenNext \/ TokenFaultNext \/ LoginNext
  \/ LockoutNext \/ RecordNext \/ MfaLoginNext \/ MfaNext
  \/ SessionNext \/ LogoutNext \/ ChangeNext \/ AuditNext \/ RegisterNext
  \/ MemberNext \/ RbacClockNext \/ AssignNext \/ UpsertNext \/ RolesNext \/ SeedNext \/ IssueNext
  \/ KeyNext \/ OriginNext \/ GuessNext \/ RaceNext \/ TenantNext

Spec == Init /\ [][Next]_vars

----------------------------------------------------------------------------
(* Claims about RbacService.checkPermission *)

Pairs(perms) == {<<p.action, p.resource>> : p \in perms}

Unscoped(perms) == \A p \in perms : p.scope.kind = "null"

Faulted(c) == cp[c].getFailed \/ cp[c].findFailed \/ cp[c].setexFailed

\* A finished call that missed the cache, met no failure, and whose store read
\* is still current (no role write since).
FreshMiss(c) ==
  /\ cp[c].pc = "done"
  /\ ~cp[c].hit
  /\ ~Faulted(c)
  /\ cp[c].orgId \in OrgIds
  /\ cp[c].epoch = storeEpoch

\* C1: with no cache entry at the start, a call for a principal whose active
\* membership references role R (unscoped permissions, no resource id) returns true
\* exactly when (a, r) is in R's permissions, or R has ADMIN on r, or R has ADMIN on
\* ORGANIZATION; a principal with no active membership gets false for every (a, r).
C1_PermissionIffRole ==
  \A c \in CallIds :
    FreshMiss(c) =>
      LET m == members[<<cp[c].userId, cp[c].orgId>>] IN
      \A a \in Actions, r \in Resources :
        IF m.exists /\ m.isActive
        THEN LET R == roles[m.roleId].permissions IN
             Unscoped(R) =>
               ((Result(c, a, r, NoId) = "true") <=>
                  \/ <<a, r>> \in Pairs(R)
                  \/ <<"ADMIN", r>> \in Pairs(R)
                  \/ <<"ADMIN", "ORGANIZATION">> \in Pairs(R))
        ELSE Result(c, a, r, NoId) = "false"

\* C1 witness: a call that missed the cache is granted DELETE on DESIGN only through
\* its role's ADMIN on ORGANIZATION, and another principal without membership ran too.
C1_Witness ==
  \E c \in CallIds :
    /\ FreshMiss(c)
    /\ members[<<cp[c].userId, cp[c].orgId>>].isActive
    /\ roles[members[<<cp[c].userId, cp[c].orgId>>].roleId].permissions = {Perm("ADMIN", "ORGANIZATION")}
    /\ Result(c, "DELETE", "DESIGN", NoId) = "true"
    /\ \E d \in CallIds : FreshMiss(d) /\ ~members[<<cp[d].userId, cp[d].orgId>>].isActive

RevokedPairs == Pairs(ur.old) \ Pairs(roles[ur.roleId].permissions)

CachedPairs(userId, orgId) ==
  LET e == permCache[CacheKey(userId, orgId)] IN
  IF e.present THEN Pairs(e.value.doc) ELSE {}

\* C3: once updateRole has returned after removing (a, r) from role R (R keeping no
\* ADMIN on r or ORGANIZATION), no cache entry of a principal holding R contains
\* (a, r), and every call for such a principal that started afterwards returns false.
C3_NoStaleGrantAfterUpdate ==
  (ur.pc = "done" /\ ur.result = "ok") =>
    \A u \in RoleMembers(ur.roleId, ur.orgId), pr \in RevokedPairs :
      ~HasAdminPermission(roles[ur.roleId].permissions, pr[2]) =>
        /\ pr \notin CachedPairs(u, ur.orgId)
        /\ \A c \in CallIds :
             (cp[c].pc = "done" /\ cp[c].afterUpdate /\ cp[c].userId = u /\ cp[c].orgId = ur.orgId) =>
               Result(c, pr[1], pr[2], NoId) = "false"

\* The second half of C3 alone (what calls started after the update return).
C3_ResultsAfterUpdate ==
  (ur.pc = "done" /\ ur.result = "ok") =>
    \A u \in RoleMembers(ur.roleId, ur.orgId), pr \in RevokedPairs :
      ~HasAdminPermission(roles[ur.roleId].permissions, pr[2]) =>
        \A c \in CallIds :
          (cp[c].pc = "done" /\ cp[c].afterUpdate /\ cp[c].userId = u /\ cp[c].orgId = ur.orgId) =>
            Result(c, pr[1], pr[2], NoId) = "false"

----------------------------------------------------------------------------
(* Claims about AuthService.refreshToken *)

RtDone(t) == rt[t].pc = "done"

RtOk(t) == RtDone(t) /\ rt[t].result = "ok"

\* C4: in sequential execution a call presenting a validly signed token whose
\* record is unrevoked and unexpired and whose principal is active succeeds, and
\* every later call presenting a token string that was already used successfully
\* fails with Unauthorized.
C4_RotateOnceSequential ==
  \A t \in RefreshCallIds :
    (RtDone(t) /\ rt[t].alone) =>
      /\ rt[t].usable => rt[t].result = "ok"
      /\ rt[t].reused => rt[t].result = "Unauthorized"

\* C5: of the calls that present the same token string and run concurrently, at
\* most one succeeds.
C5_AtMostOneConcurrentSuccess ==
  \A t1, t2 \in RefreshCallIds :
    (t1 # t2 /\ RtOk(t1) /\ RtOk(t2) /\ rt[t1].token = rt[t2].token) =>
      (rt[t1].alone \/ rt[t2].alone)

\* C6: rotation is all-or-nothing: a call that fails has not revoked the record
\* of the token it was given.
C6_FailedCallRevokedNothing ==
  \A t \in RefreshCallIds :
    (RtDone(t) /\ rt[t].result = "Unauthorized") => ~rt[t].revoked

----------------------------------------------------------------------------
(* Claims about AuthService.login *)

Rejected == lastLogin.outcome = "TooManyAttempts"

\* Five counted failures in a row, each within the lockout window of the one
\* before, and the window of the last one still open when the call started.
FiveFailsInWindow == lastLogin.fiveBefore /\ ~lastLogin.elapsed

\* C7: after five consecutive failed logins for an email inside the lockout
\* window, the next login for that email is rejected as too many attempts, also
\* when it carries the correct password and MFA code.
C7_SixthAttemptRejected == FiveFailsInWindow => Rejected

C7_Witness == FiveFailsInWindow /\ lastLogin.correct /\ Rejected

C9_LockoutFirstChangesNothing ==
  [][(ticks' = ticks /\ (lastLogin'.emailLocked \/ lastLogin'.originLocked)) =>
       /\ lastLogin'.outcome = "TooManyAttempts"
       /\ ~lastLogin'.readUser
       /\ ~lastLogin'.comparedPassword
       /\ UNCHANGED <<attempts, refreshTokens, users, auditLog>>]_vars

C9_Witness == Rejected /\ lastLogin.originLocked /\ ~lastLogin.emailLocked /\ lastLogin.correct

\* C10: after a fully successful login, fewer than five failed logins for that
\* email never lock it, however many failures came before the success.
C10_SuccessResetsCounter ==
  \A e \in Watched :
    (failLog[e].success # "none" /\ failLog[e].consec < maxLoginAttempts) =>
      CounterOf(e) < maxLoginAttempts

C10_Witness ==
  \E e \in Watched :
    /\ failLog[e].success = "afterFailures"
    /\ failLog[e].consec = maxLoginAttempts - 1
    /\ CounterOf(e) = maxLoginAttempts - 1

\* C11: lockout is kept per email and per origin, and either one blocks: after
\* five failed logins in a row from one origin (against whatever emails) the
\* next login from that origin is rejected, and after five failed logins in a row
\* for one email (from whatever origins) the next login for that email is rejected.
C11_EitherLockBlocks ==
  (FiveFailsInWindow \/ lastLogin.originFiveBefore) => Rejected

\* An origin locked by failures spread over two emails, neither of them locked.
C11_Witness ==
  /\ Rejected /\ lastLogin.originFiveBefore /\ ~lastLogin.emailLocked /\ lastLogin.correct
  /\ \A e \in Emails : CounterOf(e) \in 1 .. maxLoginAttempts - 1
  /\ \E o \in Origins : CounterOf(o) = 0

\* An email locked by failures spread over two origins, neither of them locked.
C11_EmailLockedFromTwoOrigins ==
  /\ Rejected /\ lastLogin.fiveBefore /\ ~lastLogin.originLocked /\ lastLogin.correct
  /\ \A o \in Origins : CounterOf(o) \in 1 .. maxLoginAttempts - 1
  /\ CounterOf(UnknownEmail) = 0

NoFailingCallInFlight == \A c \in FailCallIds : fl[c].pc \in {"idle", "done"}

\* C12: recording a failure is one unit: once no failing call is in flight, the
\* counter of an email is not below the number of failures recorded for it in a
\* row within the window since the last reset (no failure is lost), and a
\* counter that is there has a TTL.
C12_RecordedFailuresCounted ==
  NoFailingCallInFlight =>
    \A e \in Watched :
      /\ now < failLog[e].lastAt + lockoutDuration => CounterOf(e) >= failLog[e].consec
      /\ RedisLive(attempts[AttemptKey(e)]) => attempts[AttemptKey(e)].expireAt # NoTtl

\* The counter of an identifier after one more failure was recorded for it.
Raised(id) ==
  /\ CounterOf(id)' = CounterOf(id) + 1
  /\ attempts'[AttemptKey(id)].expireAt = now + lockoutDuration

\* C13: for a user with MFA, login hands out tokens and stores a refresh token
\* only when the call carries a code that verifies; the right password with no
\* code gives the challenge and changes nothing (no token, no record, counters
\* not reset, last login not updated, no audit record); a wrong code fails and
\* raises the counter of the email and the counter of the origin.
C13_MfaGatesTokens ==
  [][/\ (lastLogin'.passwordOnly /\ ~lastLogin'.emailLocked /\ ~lastLogin'.originLocked) =>
          lastLogin'.outcome = "MfaChallenge"
     /\ lastLogin'.outcome = "MfaChallenge" =>
          UNCHANGED <<attempts, refreshTokens, nextTokenId, issued, users, auditLog>>
     /\ lastLogin'.outcome = "InvalidMfaToken" =>
          /\ \A e \in Watched : Raised(e)
          /\ \A o \in Origins :
               IF o = lastLogin'.origin THEN Raised(o)
               ELSE attempts'[AttemptKey(o)] = attempts[AttemptKey(o)]
          /\ UNCHANGED <<refreshTokens, nextTokenId, issued, users, auditLog>>
     /\ (refreshTokens' # refreshTokens \/ issued' # issued) => lastLogin'.correct]_vars

\* The challenge was returned while failures were on record, and they still are.
C13_Witness ==
  /\ lastLogin.outcome = "MfaChallenge"
  /\ lastLogin.passwordOnly
  /\ \A e \in Watched : CounterOf(e) > 0
  /\ \E o \in Origins : CounterOf(o) > 0

\* A wrong code from an origin has raised both counters.
C13_WrongCodeCounted ==
  /\ lastLogin.outcome = "InvalidMfaToken"
  /\ lastLogin.origin # NoIp
  /\ \A e \in Watched : CounterOf(e) > 1

----------------------------------------------------------------------------
(* Claims about the MFA operations *)

\* C14: setupMfa followed by enableMfa with the current code of the secret that
\* setupMfa returned succeeds, sets the flag and stores that very secret.
C14_SetupThenEnableSucceeds ==
  (lastMfa.op = "enableMfa" /\ lastMfa.setupCode /\ lastMfa.outcome # "BadRequest") =>
    /\ lastMfa.outcome = "ok"
    /\ users[lastMfa.userId].mfaEnabled
    /\ DecryptSecret(users[lastMfa.userId].mfaSecret) = handed[lastMfa.userId]

\* C19: the MFA flag of a user goes from on to off only in a disableMfa call
\* for that user that carries the current password and a code valid for the
\* stored secret; a disableMfa call with either one wrong fails and leaves the
\* flag and the secret as they were.
C19_DisableNeedsPasswordAndCode ==
  [][/\ \A u \in Principals :
          (users[u].mfaEnabled /\ ~users'[u].mfaEnabled) =>
            /\ lastMfa'.flip # lastMfa.flip
            /\ lastMfa'.op = "disableMfa" /\ lastMfa'.userId = u
            /\ lastMfa'.passwordOk /\ lastMfa'.codeOk
     /\ (/\ lastMfa'.flip # lastMfa.flip
         /\ lastMfa'.op = "disableMfa"
         /\ ~(lastMfa'.passwordOk /\ lastMfa'.codeOk)) =>
          /\ lastMfa'.outcome \in {"BadRequest", "InvalidPassword", "InvalidMfaToken"}
          /\ users' = users]_vars

\* MFA was switched off for a user, and a call with the right password and a
\* wrong code, or the wrong password and a right code, was refused.
C19_Witness ==
  /\ lastMfa.op = "disableMfa" /\ lastMfa.outcome = "ok"
  /\ ~users[lastMfa.userId].mfaEnabled
  /\ users[lastMfa.userId].mfaSecret = NoSecret

C19_RefusedWithOneWrong ==
  /\ lastMfa.op = "disableMfa"
  /\ lastMfa.passwordOk # lastMfa.codeOk
  /\ lastMfa.outcome \in {"InvalidPassword", "InvalidMfaToken"}
  /\ users[lastMfa.userId].mfaEnabled

----------------------------------------------------------------------------
(* Claims about AuthService.changePassword and logout *)

\* The refreshToken calls that started after the password change returned and
\* presented a token handed out for that principal before it.
AfterChange(t) ==
  /\ Changed
  /\ RtDone(t)
  /\ t \notin chg.seen
  /\ rt[t].token \in chg.before

\* C15: in sequential execution, after changePassword has succeeded for a
\* principal, every refreshToken call presenting a refresh token that was issued
\* to that principal before the change fails.
C15_PreChangeTokenRefused ==
  \A t \in RefreshCallIds : AfterChange(t) => rt[t].result = "Unauthorized"

\* C16: under every interleaving, once changePassword has returned for a
\* principal, every usable (unrevoked, unexpired) refresh-token record of that
\* principal was created by a login with the new password; a refreshToken call
\* of an older session running at the same time leaves no usable successor
\* behind. Where nobody logs in after the change, the principal has no usable
\* record at all.
C16_NoUsableRecordAfterChange ==
  Changed => \A r \in refreshTokens : r.userId = chg.userId => ~Usable(r)

\* The refreshToken calls that started after the last logout returned.
AfterLogout(t) == RtDone(t) /\ t \notin lo.seen

\* After logout(P) every token handed out for P before it is refused; after
\* logout(P, t) with t one of P's tokens, t is refused.
LogoutRefuses ==
  \A t \in RefreshCallIds :
    (/\ AfterLogout(t)
     /\ \/ lo.token = NoRefreshToken /\ rt[t].token \in lo.before
        \/ lo.token = rt[t].token /\ rt[t].token.sub = lo.userId)
      => rt[t].result = "Unauthorized"

\* A logout step changes no record of another principal; given a token it
\* changes no record holding another token; given a token of another principal
\* it changes nothing.
LogoutFrame ==
  lo'.flip # lo.flip =>
    /\ \A r \in refreshTokens : r.userId # lo'.userId => r \in refreshTokens'
    /\ lo'.token # NoRefreshToken =>
         \A r \in refreshTokens : r.token # lo'.token => r \in refreshTokens'
    /\ (lo'.token # NoRefreshToken /\ lo'.token.sub # lo'.userId) =>
         refreshTokens' = refreshTokens
    /\ {r.id : r \in refreshTokens'} = {r.id : r \in refreshTokens}

\* C17: logout revokes exactly the targeted tokens: after logout(P) returns,
\* refreshToken fails for every refresh token issued to P before; after
\* logout(P, t) returns, refreshToken fails for t while P's other tokens stay
\* as they were; neither form changes a record of another principal, and
\* logout(P, t) with t owned by another principal revokes nothing.
C17_LogoutRevokesExactlyTargeted == [][LogoutFrame /\ LogoutRefuses']_vars

----------------------------------------------------------------------------
(* Claims about the audit log *)

\* The step ends a call that has done its writes and reached logAuditEvent.
LoginEnd == nextTokenId' # nextTokenId /\ rt' = rt

MfaEnd == lastMfa'.flip # lastMfa.flip /\ users' # users

LogoutEnd == lo'.flip # lo.flip /\ ~lo'.storeFailed

ChangeEnd == chg.pc = "audit" /\ chg'.pc = "idle"

RoleEnd == rb'.flip # rb.flip /\ rb'.wrote

UpdateEnd == ur.pc = "del" /\ ur'.pc = "done"

AuditedEnd == LoginEnd \/ MfaEnd \/ LogoutEnd \/ ChangeEnd \/ RoleEnd \/ UpdateEnd

\* C18: a failing audit append never aborts the operation: login, logout,
\* changePassword, enableMfa, disableMfa, assignRole, createRole, updateRole and
\* deleteRole return their normal result, with their writes in place, whether
\* the append at their end fails or not; only the audit record is missing when it
\* fails.
C18_AuditFailureAbortsNothing ==
  [][/\ LoginEnd => lastLogin'.outcome = "ok" /\ \E r \in refreshTokens' : r.id = nextTokenId
     /\ MfaEnd => lastMfa'.outcome = "ok"
     /\ LogoutEnd => \A r \in refreshTokens' :
                       (r.userId = lo'.userId /\ lo'.token \in {NoRefreshToken, r.token})
                         => r.isRevoked
     /\ ChangeEnd => chg'.outcome = "ok" /\ users'[chg.userId].passwordHash = chg.newHash
     /\ RoleEnd => rb'.result = "ok"
     /\ UpdateEnd => ur'.result = "ok"
     /\ AuditedEnd => Len(auditLog') = Len(auditLog) + (IF auditDown THEN 0 ELSE 1)
     /\ AuditedEnd => auditDown' = auditDown]_vars

\* A login, a logout, a password change and an MFA change have all returned
\* normally while the audit table was down: no audit record was written.
C18_Witness ==
  /\ auditDown /\ auditLog = <<>>
  /\ nextTokenId > 3 /\ lastLogin.outcome = "ok"
  /\ lo.flip
  /\ Changed
  /\ lastMfa.outcome = "ok"

\* The same for assignRole, deleteRole, createRole and updateRole.
C18_RolesWitness ==
  /\ auditDown /\ auditLog = <<>>
  /\ ur.pc = "done" /\ ur.result = "ok"
  /\ rb.op = "createRole" /\ rb.result = "ok"

----------------------------------------------------------------------------
(* Claims about AuthService.register *)

RgDone(c) == rg[c].pc = "done"

\* Two finished calls asked for the same email or the same username.
SameIdentity(c, d) ==
  \/ rg[c].email = rg[d].email
  \/ rg[c].username # NoUsername /\ rg[c].username = rg[d].username

\* C20: register fails with Conflict whenever the email or the username is
\* already taken; of two registrations asking for the same email or username at
\* the same time exactly one succeeds and the other gets Conflict; and at every
\* reachable state no two principals share an email or a username.
C20_RegisterKeepsIdentitiesUnique ==
  /\ \A c \in RegisterCallIds : (RgDone(c) /\ rg[c].taken) => rg[c].result = "Conflict"
  /\ \A c, d \in RegisterCallIds :
       (c # d /\ RgDone(c) /\ RgDone(d) /\ ~rg[c].taken /\ ~rg[d].taken /\ SameIdentity(c, d)) =>
         {rg[c].result, rg[d].result} = {"ok", "Conflict"}
  /\ \A a, b \in accounts :
       a.id # b.id =>
         /\ a.email # b.email
         /\ a.username # NoUsername => a.username # b.username

----------------------------------------------------------------------------
(* Claims about what a failed login discloses *)

\* The request is refused because one of its factors is wrong: it is not held
\* back by the rate limit and not asked for a code it did not carry.
WrongFactor(email, password, mfaToken) ==
  /\ ~CheckRateLimit(email, NoIp)
  /\ ~CorrectCredentials(email, password, mfaToken)
  /\ Outcome(email, password, mfaToken, NoIp) # "MfaChallenge"

\* C21: the outcome the caller sees of a failed login (error kind and message)
\* is the same whether the email is unknown, the principal is inactive, the
\* password is wrong or the MFA code is wrong: any two requests refused for a
\* wrong factor get the same answer.
C21_FailedLoginsAlike ==
  \A e1, e2 \in Emails, p1, p2 \in Passwords, m1, m2 \in MfaTokens :
    (WrongFactor(e1, p1, m1) /\ WrongFactor(e2, p2, m2)) =>
      Outcome(e1, p1, m1, NoIp) = Outcome(e2, p2, m2, NoIp)

----------------------------------------------------------------------------
(* Claims about the permission cache *)

\* The decision a working, empty cache gives: the one computed from the store.
StoreDecision(userId, orgId, action, resource) ==
  Decide(IF orgId = NoOrg THEN {} ELSE MemberPermissions(userId, orgId), action, resource, NoId)

\* The cache was down for the whole call: the read failed and so did the write.
CacheDown(c) == cp[c].pc = "done" /\ cp[c].getFailed /\ cp[c].setexFailed

\* C22: with the cache entirely unavailable (every read and write fails) a
\* checkPermission call returns the decision computed from the store, the one a
\* call with a working, empty cache returns.
C22_CacheDownDecidesFromStore ==
  \A c \in CallIds : CacheDown(c) =>
    \A a \in Actions, r \in Resources :
      Result(c, a, r, NoId) = StoreDecision(cp[c].userId, cp[c].orgId, a, r)

\* Call d was served from the cache entry that call c wrote for the same
\* (principal, tenant), and no role was updated in between.
ServedFrom(d, c) ==
  /\ c # d
  /\ cp[c].pc = "done" /\ ~cp[c].hit /\ ~cp[c].findFailed /\ ~cp[c].setexFailed
  /\ cp[d].pc = "done" /\ cp[d].hit
  /\ cp[d].userId = cp[c].userId /\ cp[d].orgId = cp[c].orgId
  /\ storeEpoch = 0

\* C23: the permission cache is transparent: with the store unchanged, a
\* checkPermission call served from the cache entry an earlier call for the same
\* (principal, tenant) wrote returns, for every (action, resource), the result
\* that earlier call returned.
C23_CacheHitSameResult ==
  \A c, d \in CallIds : ServedFrom(d, c) =>
    \A a \in Actions, r \in Resources : Result(d, a, r, NoId) = Result(c, a, r, NoId)

\* Call c wrote a cache entry computed from what the store held before the role
\* was updated.
WroteStale(c) == cp[c].wroteAt # NoTtl /\ cp[c].orgId # NoOrg /\ cp[c].epoch < storeEpoch

\* Call d started after the update returned and at least one TTL after every
\* cache write that used pre-change data.
PastStaleness(d) ==
  /\ cp[d].pc = "done" /\ cp[d].afterUpdate /\ ur.result = "ok"
  /\ \A c \in CallIds : WroteStale(c) => cp[d].startedAt >= cp[c].wroteAt + permissionCacheExpiry

\* C24: staleness is bounded by one cache TTL: after a role change, a
\* checkPermission call for an affected (principal, tenant) that starts 300
\* seconds or more after the last cache write that used pre-change data agrees
\* with the store.
C24_AgreesWithStoreAfterTtl ==
  \A d \in CallIds : PastStaleness(d) =>
    \A a \in Actions, r \in Resources :
      Result(d, a, r, NoId) = StoreDecision(cp[d].userId, cp[d].orgId, a, r)

\* The part of C24 that is about the TTL: a call past the staleness window
\* either misses the cache and agrees with the store, or is served from an entry
\* that a call wrote from post-change data less than 300 seconds before.
StaleEntriesExpire ==
  \A d \in CallIds : PastStaleness(d) =>
    IF cp[d].hit
    THEN \E e \in CallIds :
           /\ e # d /\ cp[e].wroteAt # NoTtl /\ ~WroteStale(e)
           /\ cp[e].userId = cp[d].userId /\ cp[e].orgId = cp[d].orgId
           /\ cp[e].wroteAt <= cp[d].startedAt
           /\ cp[d].startedAt < cp[e].wroteAt + permissionCacheExpiry
    ELSE \A a \in Actions, r \in Resources :
           Result(d, a, r, NoId) = StoreDecision(cp[d].userId, cp[d].orgId, a, r)

StaleWitness ==
  \E c, d \in CallIds : WroteStale(c) /\ PastStaleness(d) /\ ~cp[d].hit /\ cp[d].userId = cp[c].userId
                        /\ cp[d].orgId = cp[c].orgId /\ cp[c].permissions # cp[d].permissions

----------------------------------------------------------------------------
(* Claims about memberships *)

\* Call d is the first checkPermission call for its (principal, tenant) that
\* started after the last assignRole / removeFromOrganization call for that pair
\* returned; no check for the pair was in flight during that call, and no role
\* call has returned since.
NextAfterMemberCall(d, op) ==
  /\ cp[d].pc = "done"
  /\ rb.op = op /\ rb.result = "ok" /\ rb.quiet
  /\ rb.userId = cp[d].userId /\ rb.orgId = cp[d].orgId
  /\ cp[d].afterRole = rb
  /\ \A e \in CallIds :
       (e < d /\ cp[e].userId = cp[d].userId /\ cp[e].orgId = cp[d].orgId) => cp[e].afterRole # rb

\* C25: after assignRole(P, T, R') or removeFromOrganization(P, T) has returned,
\* with no checkPermission call for (P, T) in flight during it, the next
\* checkPermission(P, a, r, T) is decided from the new membership: by the
\* permissions of R' after assignRole, and false for every (a, r) after
\* removeFromOrganization.
C25_NextCheckUsesNewMembership ==
  \A d \in CallIds :
    /\ NextAfterMemberCall(d, "assignRole") =>
         \A a \in Actions, r \in Resources :
           Result(d, a, r, NoId) = Decide(roles[rb.roleId].permissions, a, r, NoId)
    /\ NextAfterMemberCall(d, "removeFromOrganization") =>
         \A a \in Actions, r \in Resources : Result(d, a, r, NoId) = "false"

\* A cache entry for the pair existed before the call: an earlier check wrote it.
CachedBefore(d) ==
  \E e \in CallIds :
    /\ e < d /\ cp[e].userId = cp[d].userId /\ cp[e].orgId = cp[d].orgId
    /\ cp[e].wroteAt # NoTtl /\ cp[e].permissions # cp[d].permissions

C25_Witness ==
  \E d \in CallIds : NextAfterMemberCall(d, "assignRole") /\ CachedBefore(d)
                      /\ Result(d, "DELETE", "DESIGN", NoId) = "true"

C25_RemovedWitness ==
  \E d \in CallIds : NextAfterMemberCall(d, "removeFromOrganization") /\ CachedBefore(d)

\* An assignRole call returns in this step.
AssignEnd == rb' # rb /\ rb'.op = "assignRole"

InTenant(roleId, orgId) == roles[roleId].exists /\ roles[roleId].orgId = orgId

\* C26: assignRole with a role id that does not exist in the given tenant fails
\* with NotFound and changes no membership, no cache entry and no audit record;
\* every membership that assignRole writes references a role of the same tenant.
C26_AssignRoleNeedsRoleOfTenant ==
  [][AssignEnd =>
       /\ ~InTenant(rb'.roleId, rb'.orgId) =>
            /\ rb'.result = "NotFound"
            /\ members' = members /\ permCache' = permCache /\ auditLog' = auditLog
       /\ members' # members =>
            /\ roles'[rb'.roleId].exists /\ roles'[rb'.roleId].orgId = rb'.orgId
            /\ members'[<<rb'.userId, rb'.orgId>>].roleId = rb'.roleId
            /\ \A k \in DOMAIN members : k # <<rb'.userId, rb'.orgId>> => members'[k] = members[k]
    ]_vars

\* The role of another tenant was refused, with a cache entry of the user in place.
C26_Witness ==
  /\ rb.op = "assignRole" /\ rb.result = "NotFound"
  /\ roles[rb.roleId].exists /\ roles[rb.roleId].orgId = OtherOrg
  /\ RedisLive(permCache[CacheKey(rb.userId, rb.orgId)])
  /\ members[<<rb.userId, rb.orgId>>].roleId = "r1"

\* A role that was deleted was refused.
C26_MissingWitness ==
  /\ rb.op = "assignRole" /\ rb.result = "NotFound"
  /\ ~roles[rb.roleId].exists

AssignKey(a) == <<up[a].userId, up[a].orgId>>

\* The assignRole call a has written its membership and nothing has written the
\* pair since.
LastWriter(a) ==
  /\ up[a].pc \in {"del", "audit", "done"} /\ up[a].result \in {"none", "ok"}
  /\ members[AssignKey(a)].roleId = up[a].roleId
  /\ members[AssignKey(a)].isActive

\* C27: at every reachable state there is at most one membership record per
\* (principal, tenant) pair, also when assignRole calls for the same pair run
\* at the same time; an assignRole call on an existing pair replaces the role and
\* re-activates the membership instead of adding a second one.
C27_OneMembershipPerPair ==
  /\ \A k \in DOMAIN members : members[k].rows <= 1 /\ (members[k].exists <=> members[k].rows = 1)
  /\ \A k \in DOMAIN members :
       (lo = NoLogout /\ rb = NoRoleCall /\ \E a \in AssignCallIds : AssignKey(a) = k /\ up[a].pc \in {"del", "audit", "done"} /\ up[a].result \in {"none", "ok"}) =>
         \E a \in AssignCallIds : AssignKey(a) = k /\ LastWriter(a)

\* Two calls for the same pair, which had no membership, ran their upserts at
\* the same time; both are over and the pair has one membership.
C27_Witness ==
  /\ \A a \in AssignCallIds : up[a].pc = "done" /\ AssignKey(a) = <<"u2", "o1">>
  /\ \E a \in AssignCallIds : up[a].raced
  /\ members[<<"u2", "o1">>].rows = 1

\* A removed membership was re-activated with another role.
C27_ReactivatedWitness ==
  \E a \in AssignCallIds :
    /\ up[a].pc = "done" /\ up[a].result = "ok" /\ up[a].found /\ up[a].roleId = "r2"
    /\ members[AssignKey(a)] = Member("r2", TRUE)

----------------------------------------------------------------------------
(* Claims about editing and deleting roles *)

\* What updateRole and deleteRole look for: a role of the tenant that is no
\* system role.
Editable(roleId, orgId) ==
  roles[roleId].exists /\ roles[roleId].orgId = orgId /\ ~roles[roleId].isSystem

\* An updateRole call starts, a deleteRole call returns in this step.
UpdateStart == ur.pc = "idle" /\ ur'.pc # "idle"

DeleteEnd == rb' # rb /\ rb'.op = "deleteRole"

StoreAndCacheKept ==
  roles' = roles /\ members' = members /\ permCache' = permCache /\ auditLog' = auditLog

\* A step in which a call for a role that is not editable is refused and changes
\* nothing, and no system role changes.
RefusedUnlessEditable ==
  /\ (UpdateStart /\ ~Editable(ur'.roleId, ur'.orgId)) =>
       ur'.pc = "done" /\ ur'.result = "NotFound" /\ StoreAndCacheKept
  /\ (DeleteEnd /\ ~Editable(rb'.roleId, rb'.orgId)) =>
       rb'.result = "NotFound" /\ StoreAndCacheKept
  /\ \A r \in RoleIds : (roles[r].exists /\ roles[r].isSystem) => roles'[r] = roles[r]

\* C28: updateRole and deleteRole that target a system role, a role of another
\* tenant or a missing role fail with NotFound and leave the role, its
\* permissions, all memberships and all cache entries unchanged; a system role
\* never changes.
C28_SystemRolesNotEditable == [][RefusedUnlessEditable]_vars

\* updateRole was refused for the system role, with a cache entry in place.
C28_Witness ==
  /\ ur.pc = "done" /\ ur.result = "NotFound"
  /\ roles[ur.roleId].isSystem /\ roles[ur.roleId].orgId = ur.orgId
  /\ roles[ur.roleId].permissions = {Perm("ADMIN", "ORGANIZATION")}
  /\ RedisLive(permCache[CacheKey("u1", "o1")])

\* deleteRole was refused for the system role, which no active member holds.
C28_DeleteWitness ==
  /\ rb.op = "deleteRole" /\ rb.result = "NotFound"
  /\ roles[rb.roleId].exists /\ roles[rb.roleId].isSystem /\ roles[rb.roleId].orgId = rb.orgId
  /\ RoleMembers(rb.roleId, rb.orgId) = {}

\* updateRole was refused for a role of another tenant, and for a deleted role.
C28_OtherTenantWitness ==
  /\ ur.pc = "done" /\ ur.result = "NotFound"
  /\ roles[ur.roleId].exists /\ ~roles[ur.roleId].isSystem /\ ur.orgId = OtherOrg

C28_MissingWitness ==
  /\ ur.pc = "done" /\ ur.result = "NotFound" /\ ~roles[ur.roleId].exists

\* An active membership references the role.
InUse(roleId) ==
  \E k \in DOMAIN members : members[k].exists /\ members[k].isActive /\ members[k].roleId = roleId

DeleteRoleGuards ==
  [][(DeleteEnd /\ Editable(rb'.roleId, rb'.orgId)) =>
       IF InUse(rb'.roleId)
       THEN rb'.result = "Forbidden" /\ StoreAndCacheKept
       ELSE IF ~Referenced(rb'.roleId)
       THEN rb'.result = "ok" /\ ~roles'[rb'.roleId].exists
       ELSE \/ rb'.result = "ok" /\ ~roles'[rb'.roleId].exists
            \/ rb'.result = "ForeignKeyViolation" /\ StoreAndCacheKept
    ]_vars

\* The role was deleted after its only member was given another role.
DeletedAfterReassign ==
  /\ rb.op = "deleteRole" /\ rb.result = "ok" /\ rb.roleId = "r1"
  /\ ~roles["r1"].exists
  /\ members[<<"u1", "o1">>] = Member("r2", TRUE)

----------------------------------------------------------------------------
(* Claims about the default roles *)

\* initializeDefaultRoles has returned normally for the tenant.
Seeded(orgId) ==
  \A i \in DOMAIN SeededRoleIds :
    roles[SeededRoleIds[i]].exists /\ roles[SeededRoleIds[i]].orgId = orgId

SystemRolesOf(orgId) ==
  {r \in DOMAIN roles : roles[r].exists /\ roles[r].isSystem /\ roles[r].orgId = orgId}

\* The permission sets as the claim lists them.
ClaimedAdmin == {Perm("ADMIN", "ORGANIZATION")}

ClaimedDeveloper ==
  {Perm(a, r) : a \in Crud \cup {"DEPLOY"}, r \in {"DESIGN", "TEMPLATE", "PIPELINE"}}
    \cup {Perm("READ", "STATE")}

ClaimedViewer == {Perm("READ", r) : r \in {"DESIGN", "TEMPLATE", "PIPELINE", "STATE"}}

\* Call d was made by a principal whose active membership is the seeded
\* Developer role, assigned before the call started and not changed since.
ByDeveloper(d) ==
  /\ cp[d].pc = "done" /\ cp[d].orgId # NoOrg
  /\ members[<<cp[d].userId, cp[d].orgId>>] = Member(SeededRoleIds[2], TRUE)
  /\ cp[d].afterRole = rb
  /\ rb.op = "assignRole" /\ rb.result = "ok" /\ rb.roleId = SeededRoleIds[2]
  /\ rb.userId = cp[d].userId /\ rb.orgId = cp[d].orgId

\* C30: initializeDefaultRoles(T) creates exactly three system roles in T: Admin
\* with ADMIN on ORGANIZATION; Developer with CREATE, READ, UPDATE, DELETE and
\* DEPLOY on each of DESIGN, TEMPLATE and PIPELINE plus READ on STATE; Viewer with
\* READ on DESIGN, TEMPLATE, PIPELINE and STATE; a principal assigned the seeded
\* Developer role gets true for (DELETE, DESIGN) and false for (ADMIN,
\* ORGANIZATION).
C30_DefaultRolesAsListed ==
  \A o \in OrgIds : Seeded(o) =>
    /\ SystemRolesOf(o) = {SeededRoleIds[i] : i \in DOMAIN SeededRoleIds}
    /\ roles[SeededRoleIds[1]].permissions = ClaimedAdmin
    /\ roles[SeededRoleIds[2]].permissions = ClaimedDeveloper
    /\ roles[SeededRoleIds[3]].permissions = ClaimedViewer
    /\ \A d \in CallIds : ByDeveloper(d) =>
         /\ Result(d, "DELETE", "DESIGN", NoId) = "true"
         /\ Result(d, "ADMIN", "ORGANIZATION", NoId) = "false"

\* What the source settles: three system roles with the permission sets of the
\* defaultRoles array, and the two decisions for a Developer whose call is not
\* served from the cache.
SeedMatchesSource ==
  \A o \in OrgIds : Seeded(o) =>
    /\ SystemRolesOf(o) = {SeededRoleIds[i] : i \in DOMAIN SeededRoleIds}
    /\ \A i \in DOMAIN SeededRoleIds :
         roles[SeededRoleIds[i]].permissions = DefaultRoles[i].permissions
    /\ roles[SeededRoleIds[2]].permissions =
         ClaimedDeveloper \ {Perm("DEPLOY", "TEMPLATE"), Perm("DEPLOY", "PIPELINE")}
    /\ \A d \in CallIds : (ByDeveloper(d) /\ ~cp[d].hit) =>
         /\ Result(d, "DELETE", "DESIGN", NoId) = "true"
         /\ Result(d, "ADMIN", "ORGANIZATION", NoId) = "false"

\* The Developer role matches the listed set; only cache hits go wrong.
DeveloperChecksAsListed ==
  \A o \in OrgIds : Seeded(o) =>
    \A d \in CallIds : ByDeveloper(d) =>
      /\ Result(d, "DELETE", "DESIGN", NoId) = "true"
      /\ Result(d, "ADMIN", "ORGANIZATION", NoId) = "false"

SeedWitness ==
  \E d \in CallIds : Seeded("o1") /\ ByDeveloper(d) /\ ~cp[d].hit

----------------------------------------------------------------------------
(* Claims about scoped permissions *)

Matching(perms, action, resource) ==
  {p \in perms : p.action = action /\ p.resource = resource}

\* Every permission of the list on (action, resource) is scoped, none of them
\* lists resourceId, and the list holds no ADMIN permission that covers the
\* resource.
OnlyScopedElsewhere(perms, action, resource, resourceId) ==
  /\ Matching(perms, action, resource) # {}
  /\ \A p \in Matching(perms, action, resource) :
       p.scope.kind = "ids" /\ resourceId \notin p.scope.resourceIds
  /\ ~HasAdminPermission(perms, resource)

\* C31: when the only matching permission is scoped and the principal has no
\* ADMIN permission, checkPermission returns false for a resource id outside the
\* scope's list and for a request that supplies no resource id.
C31_ScopedGrantsOnlyListed ==
  \A c \in CallIds : cp[c].pc = "done" =>
    \A a \in Actions, r \in Resources, id \in ResourceIds \cup {NoId} :
      OnlyScopedElsewhere(cp[c].permissions, a, r, id) => Result(c, a, r, id) = "false"

\* The half the code keeps: a resource id that is supplied and is outside the
\* list is refused.
ScopedRefusesOutsideList ==
  \A c \in CallIds : cp[c].pc = "done" =>
    \A a \in Actions, r \in Resources, id \in ResourceIds :
      OnlyScopedElsewhere(cp[c].permissions, a, r, id) => Result(c, a, r, id) = "false"

ScopedWitness ==
  \E c \in CallIds :
    /\ cp[c].pc = "done"
    /\ OnlyScopedElsewhere(cp[c].permissions, "DELETE", "DESIGN", "d2")
    /\ Result(c, "DELETE", "DESIGN", "d2") = "false"
    /\ Result(c, "DELETE", "DESIGN", "d1") = "true"

----------------------------------------------------------------------------
(* Claims about refused refreshToken calls *)

\* Call t ends in this step because the presented token did not pass the
\* checks (signature, stored record, flags, expiry, active principal) or because
\* its record was gone when the update ran.
RtRefusedStep(t) == rt[t].pc \in {"idle", "revoke"} /\ rt'[t].pc = "done"

RefusedCallsChangeNoRecord ==
  \A t \in RefreshCallIds :
    /\ (rt[t].pc = "idle" /\ rt'[t].pc # "idle" /\ ~rt'[t].usable) => RtRefusedStep(t)
    /\ RtRefusedStep(t) => (rt'[t].result = "Unauthorized" /\ refreshTokens' = refreshTokens)

\* C32: a refreshToken call that fails on an invalid signature, a missing, revoked
\* or expired record or an inactive principal fails with Unauthorized and changes
\* no refresh-token record; presenting an already-rotated token revokes neither
\* its successor nor any other token of the principal.
C32_RefusedRefreshChangesNothing == [][RefusedCallsChangeNoRecord]_vars

\* A token that was rotated is presented again and refused while its successor
\* is still stored and usable.
C32_Witness ==
  \E t \in RefreshCallIds :
    /\ RtDone(t) /\ rt[t].reused /\ rt[t].result = "Unauthorized" /\ ~rt[t].revoked
    /\ \E r \in refreshTokens :
         r.userId = rt[t].token.sub /\ r.token # rt[t].token /\ ~r.isRevoked /\ r.expiresAt > now

\* The other causes of refusal: a forged signature, an expired token and a
\* deactivated principal.
C32_CausesWitness ==
  \E t \in RefreshCallIds :
    /\ RtDone(t) /\ rt[t].result = "Unauthorized" /\ ~rt[t].revoked
    /\ \/ rt[t].token = ForgedToken
       \/ rt[t].token.sub = "carol"
       \/ ~JwtVerify(rt[t].token, now)

----------------------------------------------------------------------------
(* Claims about pruning at token issuance *)

\* A record that refreshToken no longer accepts because of its expiry: findFirst
\* asks for expiresAt > now.
Expired(r, at) == ~(r.expiresAt > at)

\* The records of userId are all unrevoked and, by the given test, unexpired, and
\* the records of everybody else are those held before.
PrunedFor(userId, before, after, Dead(_)) ==
  /\ \A r \in after : r.userId = userId => ~r.isRevoked /\ ~Dead(r)
  /\ \A r \in before : r.userId # userId => r \in after

\* The step in which login or register stores the new record and returns.
IssuedInOneStep == nextTokenId' # nextTokenId /\ rt' = rt

\* The step in which refreshToken call t returns the new pair.
RefreshIssued(t) == rt[t].pc = "cleanup" /\ rt'[t].pc = "done"

IssuancePrunes(Dead(_)) ==
  /\ IssuedInOneStep =>
       \A n \in refreshTokens' :
         n.id = nextTokenId => PrunedFor(n.userId, refreshTokens, refreshTokens', Dead)
  /\ \A t \in RefreshCallIds : RefreshIssued(t) =>
       /\ PrunedFor(rt[t].userId, refreshTokens, refreshTokens', Dead)
       /\ ~\E r \in refreshTokens' : r.id = rt[t].storedId

ExpiredNow(r) == Expired(r, now)

ExpiredBeforeNow(r) == r.expiresAt < now

IssuanceLeavesNoDeadRecord == IssuancePrunes(ExpiredNow)

\* C33: after every successful token issuance for a principal (register, login
\* or refreshToken) with no store failure, the store holds no refresh-token
\* record of that principal that is revoked or expired; the record rotated by
\* refreshToken is deleted within the same call, and records of other principals
\* are not pruned.
C33_IssuancePrunesDeadRecords == [][IssuanceLeavesNoDeadRecord]_vars

IssuanceLeavesNoRecordPastExpiry == IssuancePrunes(ExpiredBeforeNow)

\* What cleanupExpiredTokens settles: no record of the principal is revoked or
\* has an expiry earlier than the clock reading of the cleanup.
IssuancePrunesPastExpiry == [][IssuanceLeavesNoRecordPastExpiry]_vars

\* A principal has logged in again after the old record's expiry and holds one
\* record, while another principal's expired record is still stored.
PrunedWitness ==
  /\ lastLogin.outcome = "ok"
  /\ \E r \in refreshTokens : r.userId = "carol" /\ r.expiresAt < now
  /\ \E r \in refreshTokens : r.userId = "alice"
  /\ \A r \in refreshTokens : r.userId = "alice" => r.expiresAt > now /\ r.id > 2

----------------------------------------------------------------------------
(* Claims about API keys *)

\* The last verifyApiKey call returned a boolean, true exactly for the digest.
VerifiedAsDigest ==
  /\ ak.result \in {"true", "false"}
  /\ ak.result = "true" <=> ak.hash = Sha256Hex(ak.key)

\* C34: verifyApiKey(key, hash) returns a boolean for every pair of strings: true
\* if and only if hash is the SHA-256 hex digest of key, false otherwise, also
\* when hash has a different length than a digest; and it is true for every pair
\* returned by generateApiKey.
C34_VerifyApiKeyTotal ==
  /\ ak.op = "verifyApiKey" => VerifiedAsDigest
  /\ \A p \in ak.generated : VerifyApiKeyResult(p.key, p.hash) = "true"

\* What the code keeps: the answer is right for every hash of 64 bytes, and
\* every generated pair verifies.
VerifyApiKeySameLength ==
  /\ (ak.op = "verifyApiKey" /\ ak.hash.bytes = Sha256Hex(ak.key).bytes) => VerifiedAsDigest
  /\ \A p \in ak.generated : VerifyApiKeyResult(p.key, p.hash) = "true"

GeneratedKeyVerified ==
  /\ ak.op = "verifyApiKey" /\ ak.result = "true"
  /\ [key |-> ak.key, hash |-> ak.hash] \in ak.generated

----------------------------------------------------------------------------
(* Claims about the per-origin lockout *)

RECURSIVE FailuresOf(_)
\* The counted failures on record for the given emails.
FailuresOf(emails) ==
  IF emails = {} THEN 0
  ELSE LET e == CHOOSE x \in emails : TRUE
       IN  failLog[e].consec + FailuresOf(emails \ {e})

\* Everything so far happened within one lockout window.
OneWindow == now < lockoutDuration

\* C35: within one lockout window a single origin never gets more than 5 failed
\* login attempts evaluated in total across all emails, whatever successful
\* logins it interleaves. (Every request of SpecOrigin comes from the one origin,
\* so the failures on record for the emails are failures of that origin.)
C35_OriginBoundedAcrossEmails ==
  OneWindow => FailuresOf(Watched) <= maxLoginAttempts

\* What the code keeps: a failure is evaluated only while the origin's counter
\* is below the threshold and adds one to it, and within the TTL the counter
\* goes down only through a call with correct credentials.
OriginCounterStep ==
  ticks' = ticks =>
    /\ CounterOf("ip1")' > CounterOf("ip1") =>
         /\ CounterOf("ip1") < maxLoginAttempts
         /\ CounterOf("ip1")' = CounterOf("ip1") + 1
    /\ CounterOf("ip1")' < CounterOf("ip1") => lastLogin'.correct /\ CounterOf("ip1")' = 0

OriginCounterKept == [][OriginCounterStep]_vars

\* The origin is locked out after more failures than the threshold, a success
\* in between.
OriginResetWitness ==
  /\ OneWindow
  /\ CounterOf("ip1") = maxLoginAttempts
  /\ FailuresOf(Watched) > maxLoginAttempts
  /\ \E e \in Watched : failLog[e].success = "afterFailures"

----------------------------------------------------------------------------
(* Claims about concurrent guesses *)

\* The calls for the email that have compared a wrong password and have not
\* counted it yet.
Uncounted(email) == {c \in FailCallIds : fl[c].pc = "incr" /\ fl[c].email = email}

\* The wrong passwords compared for the email since its counter was last created:
\* those counted and those of the calls that are about to count.
Compared(email) == CounterOf(email) + Cardinality(Uncounted(email))

\* C36: for every interleaving of concurrent login attempts for the same email,
\* the number of wrong passwords compared within one lockout window, with no
\* successful login in between, never exceeds 5: no sixth wrong guess is
\* evaluated.
C36_NoSixthGuessEvaluated ==
  OneWindow => \A email \in Emails : Compared(email) <= maxLoginAttempts

\* What the code keeps: a call that starts when five failures are counted
\* compares nothing.
StartedAtLimitRefused ==
  [][\A c \in FailCallIds :
       (fl[c].pc = "idle" /\ fl'[c].pc # "idle" /\ CounterOf(fl'[c].email) >= maxLoginAttempts)
         => fl'[c].pc = "done"]_vars

\* Two calls started below the threshold and both were counted: six failures.
SixthGuessWitness ==
  /\ \A c \in FailCallIds : fl[c].pc = "done" /\ fl[c].email = "alice"
  /\ CounterOf("alice") = maxLoginAttempts + 1
  /\ OneWindow

----------------------------------------------------------------------------
(* Claims about the freshness of refresh tokens *)

\* The token string returned in this step was never returned before, and a
\* refreshToken call does not return the string it was given.
FreshIssuance ==
  /\ IssuedInOneStep => \A n \in refreshTokens' : n.id = nextTokenId => n.token \notin issued
  /\ \A t \in RefreshCallIds : RefreshIssued(t) =>
       /\ rt[t].newToken \notin issued
       /\ rt[t].newToken # rt[t].token

\* C37: every refresh token string returned by register, login or refreshToken
\* differs from every refresh token string issued earlier to the same principal,
\* also when two issuances fall within the same clock second; refreshToken never
\* returns the presented token as the new one.
C37_IssuedTokensAreFresh == [][FreshIssuance]_vars

\* A refreshToken call has returned the very string it was given, and that
\* string is stored and usable.
SameStringReturned ==
  \E t \in RefreshCallIds :
    /\ RtOk(t) /\ rt[t].newToken = rt[t].token
    /\ FindStored(rt[t].token, now) # {}

----------------------------------------------------------------------------
(* Claims about the MFA flag and the stored secret *)

SecretStored(user) == user.mfaSecret # NoSecret

FlagIffSecret == \A u \in Principals : users[u].mfaEnabled <=> SecretStored(users[u])

\* This step is a call of one of the MFA operations.
MfaCalled == lastMfa'.flip # lastMfa.flip

MfaFieldsOf(user) == <<user.mfaEnabled, user.mfaSecret>>

\* setupMfa writes nothing; a successful enableMfa or disableMfa changes the flag
\* and the secret of its user in the one step, a failing one changes nothing;
\* and nothing else changes either field.
FlagAndSecretTogether ==
  /\ (MfaCalled /\ lastMfa'.op = "setupMfa") =>
       users' = users /\ auditLog' = auditLog /\ refreshTokens' = refreshTokens
         /\ attempts' = attempts
  /\ (MfaCalled /\ lastMfa'.op \in {"enableMfa", "disableMfa"}) =>
       IF lastMfa'.outcome = "ok"
       THEN LET u == lastMfa'.userId IN
            /\ users'[u].mfaEnabled # users[u].mfaEnabled
            /\ users'[u].mfaSecret # users[u].mfaSecret
            /\ users'[u].mfaEnabled = (lastMfa'.op = "enableMfa")
            /\ \A v \in Principals \ {u} : users'[v] = users[v]
       ELSE users' = users
  /\ \A u \in Principals :
       MfaFieldsOf(users'[u]) # MfaFieldsOf(users[u]) =>
         MfaCalled /\ lastMfa'.outcome = "ok" /\ lastMfa'.userId = u

\* C38: at every reachable state a principal's mfaEnabled flag is true if and
\* only if an encrypted MFA secret is stored for that principal; setupMfa changes
\* no state, enableMfa and disableMfa change the flag and the secret together on
\* success, and a failing enableMfa or disableMfa call changes neither.
C38_FlagIffSecretStored == []FlagIffSecret /\ [][FlagAndSecretTogether]_vars

\* enableMfa has succeeded for a user: the flag is on and a secret is stored.
C38_Witness ==
  /\ lastMfa.op = "enableMfa" /\ lastMfa.outcome = "ok"
  /\ users[lastMfa.userId].mfaEnabled /\ SecretStored(users[lastMfa.userId])

\* disableMfa has succeeded, and a disableMfa call has failed, for the user that
\* started with MFA on.
C38_DisabledWitness ==
  /\ lastMfa.op = "disableMfa" /\ lastMfa.outcome = "ok" /\ lastMfa.userId = "bob"
  /\ ~users["bob"].mfaEnabled /\ ~SecretStored(users["bob"])

C38_RefusedWitness ==
  /\ lastMfa.op \in {"enableMfa", "disableMfa"}
  /\ lastMfa.outcome \in {"InvalidMfaToken", "InvalidPassword"}

----------------------------------------------------------------------------
(* Claims about memberships and deleted roles *)

ActiveMemberships == {k \in DOMAIN members : members[k].exists /\ members[k].isActive}

\* C39: at every reachable state, also under concurrent assignRole and
\* deleteRole calls on the same role, every active membership references a role
\* that still exists.
C39_ActiveMembersHaveRoles ==
  \A k \in ActiveMemberships : roles[members[k].roleId].exists

\* The role was deleted by a call that counted no active member, and an
\* assignRole call that ran at the same time has returned normally with the role
\* attached to its principal.
DanglingMembership ==
  /\ dr.pc = "done" /\ dr.result = "ok" /\ ~roles[dr.roleId].exists
  /\ \E a \in AssignCallIds :
       /\ up[a].pc = "done" /\ up[a].result = "ok" /\ up[a].roleId = dr.roleId
       /\ members[<<up[a].userId, up[a].orgId>>] = Member(dr.roleId, TRUE)

----------------------------------------------------------------------------
(* Claims about tenants *)

\* The permission list that checkPermission(userId, .., orgId) resolves when it
\* is called now and runs alone.
Resolved(userId, orgId) ==
  LET cached == RedisGet(permCache[CacheKey(userId, orgId)], FALSE) IN
  IF Truthy(cached)
  THEN IF JsonParse(cached).kind = "SyntaxError" THEN OnError(cached.doc)
       ELSE JsonParse(cached).doc
  ELSE IF orgId # NoOrg THEN MemberPermissions(userId, orgId) ELSE {}

\* What a tenant's checks are decided from: memberships, their roles' permission
\* lists, the cache entries of the tenant, and the answers that follow.
TenantView(orgId) ==
  [u \in UserIds |->
    [member |-> members[<<u, orgId>>],
     permissions |-> MemberPermissions(u, orgId),
     entry |-> permCache[CacheKey(u, orgId)],
     answers |-> [q \in Actions \X Resources \X (ResourceIds \cup {NoId}) |->
                   Decide(Resolved(u, orgId), q[1], q[2], q[3])]]]

\* The step is (a step of) assignRole, updateRole, deleteRole or
\* removeFromOrganization called with the tenant.
PerformedIn(orgId) ==
  \/ \E u \in UserIds, r \in RoleIds : AssignRole(u, orgId, r)
  \/ \E u \in UserIds : RemoveFromOrganization(u, orgId)
  \/ \E r \in RoleIds : DeleteRole(r, orgId)
  \/ \E r \in RoleIds : UrFind(r, orgId, TRUE, {Perm("DELETE", "DESIGN")})
  \/ ur.orgId = orgId /\ (UrUpdate \/ UrFindMany \/ UrDel \/ UrReturn)

OtherTenantChangesNothing ==
  \A o \in Tenants, other \in Tenants :
    (other # o /\ PerformedIn(other)) =>
      /\ TenantView(o)' = TenantView(o)
      /\ \A u \in UserIds : permCache'[CacheKey(u, NoOrg)] = permCache[CacheKey(u, NoOrg)]

\* A cache entry changes only by the write of a check for the same principal and
\* tenant, or by an operation called with that tenant.
CacheKeyedPerTenant ==
  \A k \in DOMAIN permCache :
    permCache'[k] # permCache[k] =>
      \/ \E c \in CallIds : cp[c].pc = "setex" /\ CacheKey(cp[c].userId, cp[c].orgId) = k
      \/ PerformedIn(k[2])

NoTenantDenied ==
  \A c \in CallIds :
    (cp[c].pc = "done" /\ cp[c].orgId = NoOrg) =>
      \A a \in Actions, r \in Resources, id \in ResourceIds \cup {NoId} :
        Result(c, a, r, id) = "false"

\* C40: tenant isolation: assignRole, updateRole, deleteRole or
\* removeFromOrganization performed in another tenant never change what
\* checkPermission returns for a tenant, cache entries are kept per (principal,
\* tenant), and a call without a tenant id returns false for every action and
\* resource.
C40_TenantIsolation ==
  []NoTenantDenied /\ [][OtherTenantChangesNothing /\ CacheKeyedPerTenant]_vars

\* u1 is granted READ on DESIGN in o1 by a check that read the store after the
\* other tenant's role was updated and assigned to u1 there, and a check of u1
\* without a tenant id was denied.
C40_Witness ==
  /\ ur.pc = "done" /\ ur.orgId = OtherOrg /\ ur.result = "ok"
  /\ members[<<"u1", OtherOrg>>] = Member("r2", TRUE)
  /\ \E c \in CallIds :
       /\ cp[c].pc = "done" /\ cp[c].userId = "u1" /\ cp[c].orgId = "o1" /\ ~cp[c].hit
       /\ cp[c].afterUpdate
       /\ Result(c, "READ", "DESIGN", NoId) = "true"
       /\ Result(c, "DELETE", "DESIGN", NoId) = "false"
  /\ \E c \in CallIds : cp[c].pc = "done" /\ cp[c].orgId = NoOrg

\* The same principal has a cached list in each tenant, and the two differ.
C40_TwoEntries ==
  /\ permCache[CacheKey("u1", "o1")].present
  /\ permCache[CacheKey("u1", OtherOrg)].present
  /\ permCache[CacheKey("u1", "o1")].value # permCache[CacheKey("u1", OtherOrg)].value

====
